---- MODULE Spec2Model ----
(***************************************************************************)
(* Model of bumpwright's contract diff, surface analyzers and decision     *)
(* engine:                                                                 *)
(*   compare.py     compare_funcs, diff_public_api, decide_bump            *)
(*   public_api.py  Param, FuncSig, PublicAPI, extraction entry point      *)
(*   cli/decide.py  _build_api_at_ref, _run_analyzers, _decide_only,       *)
(*                  _infer_level                                           *)
(*   cli/bump.py    bump_command                                           *)
(*   analyzers/__init__.py    register, get (the analyzer registry)        *)
(*   analyzers/web_routes.py  diff_routes                                  *)
(*   analysers/openapi.py     diff_specs                                   *)
(*   semverbump/analyzers/cli.py  diff_cli, build_cli_at_ref               *)
(*   analyzers/migrations.py  analyze_migrations                           *)
(*   cli/bump.py, versioning.py  bump_command, apply_bump                  *)
(***************************************************************************)
EXTENDS Integers, Sequences, FiniteSets, TLC

VARIABLES pc, old, new, old_api, new_api, return_type_change, impacts, decision,
          args, env, repo, cursor, stdout, error,
          source, result, REGISTRY, calls

\* State of a run of the bump command: arguments, working tree, the sources
\* at the two references, the file being read, the output and the exception.
runvars == <<args, env, repo, cursor, stdout, error>>

\* State of one call of a library function: the source text handed to the
\* extractor and what the call returned or raised; the analyzer registry and
\* the calls made on it and on the analyzers.
callvars == <<source, result, REGISTRY, calls>>

vars == <<pc, old, new, old_api, new_api, return_type_change, impacts, decision,
          args, env, repo, cursor, stdout, error, source, result, REGISTRY, calls>>

(***************************************************************************)
(* Bounds of the model.                                                    *)
(***************************************************************************)
MaxParams == 2

(***************************************************************************)
(* Data model (public_api.py, compare.py).                                 *)
(***************************************************************************)
\* Python's None; the rendered text of a default written `None` is the
\* string "None", which is a different value.
None == "<None>"

Kinds == <<"posonly", "pos", "vararg", "kwonly", "varkw">>

KindSet == {Kinds[i] : i \in 1..Len(Kinds)}

KindRank(k) == CHOOSE i \in 1..Len(Kinds) : Kinds[i] = k

Param(name, kind, default, annotation) ==
    [name |-> name, kind |-> kind, default |-> default, annotation |-> annotation]

FuncSig(fullname, params, returns) ==
    [fullname |-> fullname, params |-> params, returns |-> returns]

Impact(severity, symbol, reason) ==
    [severity |-> severity, symbol |-> symbol, reason |-> reason]

Decision(level, confidence, reasons) ==
    [level |-> level, confidence |-> confidence, reasons |-> reasons]

\* Value of a variable that the modelled call does not use.
Idle == "idle"

\* A call made outside a run of the command.
NoRun ==
    /\ args = Idle
    /\ env = Idle
    /\ repo = Idle
    /\ cursor = Idle
    /\ stdout = Idle
    /\ error = Idle

\* No source text is being extracted.
NoSource ==
    /\ source = Idle
    /\ result = Idle

\* The analyzer registry plays no part in the call.
NoRegistry ==
    /\ REGISTRY = Idle
    /\ calls = Idle

\* Rules.__post_init__ accepts these two values only.
RuleLevels == {"major", "minor"}

(***************************************************************************)
(* compare.py: compare_funcs                                               *)
(***************************************************************************)
RECURSIVE DictKeys(_, _)
\* Key order of the dict built by _index_params: first occurrence of a name.
DictKeys(ps, seen) ==
    IF ps = <<>> THEN <<>>
    ELSE IF Head(ps).name \in seen THEN DictKeys(Tail(ps), seen)
    ELSE <<Head(ps).name>> \o DictKeys(Tail(ps), seen \cup {Head(ps).name})

\* {p.name: p for p in sig.params}: a later parameter of the same name
\* replaces the value and keeps the key's position.
_index_params(sig) ==
    LET ps == sig.params
        names == {ps[i].name : i \in 1..Len(ps)}
        last(n) == CHOOSE i \in 1..Len(ps) :
                      /\ ps[i].name = n
                      /\ \A j \in 1..Len(ps) : ps[j].name = n => j <= i
    IN [keys |-> DictKeys(ps, {}), val |-> [n \in names |-> ps[last(n)]]]

HasKey(d, name) == name \in DOMAIN d.val

\* RemovedParamImpact with keyword-only parameters left out of the required kinds.
RemovedParamImpact_NoKwonly(fullname, name, op, newp) ==
    IF ~HasKey(newp, name)
    THEN IF op.kind \in {"posonly", "pos"} /\ op.default = None
         THEN <<Impact("major", fullname, "Removed required param '" \o name \o "'")>>
         ELSE <<Impact("minor", fullname, "Removed optional param '" \o name \o "'")>>
    ELSE <<>>

\* Body of the loop over oldp.items().
RemovedParamImpact(fullname, name, op, newp) ==
    IF ~HasKey(newp, name)
    THEN IF op.kind \in {"posonly", "pos", "kwonly"} /\ op.default = None
         THEN <<Impact("major", fullname, "Removed required param '" \o name \o "'")>>
         ELSE IF op.default # None \/ op.kind \in {"kwonly", "vararg", "varkw"}
              THEN <<Impact("minor", fullname, "Removed optional param '" \o name \o "'")>>
              ELSE <<>>
    ELSE <<>>

\* The arrow of the source's message is written "->" here.
KindChangedReason(name, okind, nkind) ==
    "Param '" \o name \o "' kind changed " \o okind \o "->" \o nkind

\* NewParamImpact that reports a shared parameter without comparing the kinds.
NewParamImpact_AnyKind(fullname, name, np, oldp) ==
    IF HasKey(oldp, name)
    THEN LET op == oldp.val[name]
         IN IF op.kind \in {"posonly", "pos", "kwonly"}
               \/ np.kind \in {"posonly", "pos", "kwonly"}
            THEN <<Impact("major", fullname, KindChangedReason(name, op.kind, np.kind))>>
            ELSE <<>>
    ELSE IF np.default = None /\ np.kind \in {"posonly", "pos", "kwonly"}
         THEN <<Impact("major", fullname, "Added required param '" \o name \o "'")>>
         ELSE <<Impact("minor", fullname, "Added optional param '" \o name \o "'")>>

\* NewParamImpact whose kind check counts the two positional kinds only.
NewParamImpact_PositionalFamily(fullname, name, np, oldp) ==
    IF HasKey(oldp, name)
    THEN LET op == oldp.val[name]
         IN IF op.kind # np.kind
               /\ (op.kind \in {"posonly", "pos"} \/ np.kind \in {"posonly", "pos"})
            THEN <<Impact("major", fullname, KindChangedReason(name, op.kind, np.kind))>>
            ELSE <<>>
    ELSE IF np.default = None /\ np.kind \in {"posonly", "pos", "kwonly"}
         THEN <<Impact("major", fullname, "Added required param '" \o name \o "'")>>
         ELSE <<Impact("minor", fullname, "Added optional param '" \o name \o "'")>>

\* Body of the loop over newp.items().
NewParamImpact(fullname, name, np, oldp) ==
    IF HasKey(oldp, name)
    THEN LET op == oldp.val[name]
         IN IF op.kind # np.kind
               /\ (op.kind \in {"posonly", "pos", "kwonly"}
                   \/ np.kind \in {"posonly", "pos", "kwonly"})
            THEN <<Impact("major", fullname, KindChangedReason(name, op.kind, np.kind))>>
            ELSE <<>>
    ELSE IF np.default = None /\ np.kind \in {"posonly", "pos", "kwonly"}
         THEN <<Impact("major", fullname, "Added required param '" \o name \o "'")>>
         ELSE <<Impact("minor", fullname, "Added optional param '" \o name \o "'")>>

\* ReturnImpact that ignores the configured severity.
ReturnImpact_AlwaysMinor(o, n, rtc) ==
    IF o.returns # n.returns
    THEN <<Impact("minor", o.fullname, "Return annotation changed")>>
    ELSE <<>>

ReturnImpact(o, n, rtc) ==
    IF o.returns # n.returns
    THEN <<Impact(rtc, o.fullname, "Return annotation changed")>>
    ELSE <<>>

RECURSIVE RemovedLoop(_, _, _, _)
RemovedLoop(keys, fullname, oldp, newp) ==
    IF keys = <<>> THEN <<>>
    ELSE RemovedParamImpact(fullname, Head(keys), oldp.val[Head(keys)], newp)
         \o RemovedLoop(Tail(keys), fullname, oldp, newp)

RECURSIVE NewLoop(_, _, _, _)
NewLoop(keys, fullname, oldp, newp) ==
    IF keys = <<>> THEN <<>>
    ELSE NewParamImpact(fullname, Head(keys), newp.val[Head(keys)], oldp)
         \o NewLoop(Tail(keys), fullname, oldp, newp)

compare_funcs(o, n, rtc) ==
    LET oldp == _index_params(o)
        newp == _index_params(n)
    IN RemovedLoop(oldp.keys, o.fullname, oldp, newp)
       \o NewLoop(newp.keys, o.fullname, oldp, newp)
       \o ReturnImpact(o, n, rtc)

(***************************************************************************)
(* Inputs: signatures as the extractor builds them.                        *)
(***************************************************************************)
ParamNames == {"x", "y"}

DefaultTexts == {"None"}

AnnotationTexts == {"int"}

ReturnTexts == {"int"}

\* A parameter as _param_list builds it: *args and **kwargs carry no default.
ParamsOver(names, annotations) ==
    {Param(n, k, d, a) :
        n \in names, k \in {"posonly", "pos", "kwonly"},
        d \in {None} \cup DefaultTexts, a \in annotations}
    \cup {Param(n, k, None, a) :
             n \in names, k \in {"vararg", "varkw"}, a \in annotations}

ParamSet == ParamsOver(ParamNames, {None})

\* Order and multiplicity of kinds in _param_list, names distinct, and the
\* positional defaults at the tail of the positional parameters.
WellFormedParams(ps) ==
    /\ \A i, j \in 1..Len(ps) :
          i < j => /\ ps[i].name # ps[j].name
                   /\ KindRank(ps[i].kind) <= KindRank(ps[j].kind)
                   /\ ps[i].kind \in {"vararg", "varkw"} => ps[i].kind # ps[j].kind
                   /\ (/\ ps[i].kind \in {"posonly", "pos"}
                       /\ ps[j].kind \in {"posonly", "pos"}
                       /\ ps[i].default # None) => ps[j].default # None

ParamLists ==
    {ps \in UNION {[1..n -> ParamSet] : n \in 0..MaxParams} : WellFormedParams(ps)}

SigSet(fullname) ==
    {FuncSig(fullname, ps, r) : ps \in ParamLists, r \in {None} \cup ReturnTexts}

(***************************************************************************)
(* SpecCompare: one call of compare_funcs on two signatures of a symbol.   *)
(***************************************************************************)
InitCompare ==
    /\ pc = "start"
    /\ old \in SigSet("m:foo")
    /\ new \in SigSet("m:foo")
    /\ return_type_change \in RuleLevels
    /\ old_api = Idle
    /\ new_api = Idle
    /\ impacts = <<>>
    /\ decision = Idle
    /\ NoRun
    /\ NoSource
    /\ NoRegistry

CompareFuncs ==
    /\ pc = "start"
    /\ impacts' = compare_funcs(old, new, return_type_change)
    /\ pc' = "done"
    /\ UNCHANGED <<callvars, old, new, old_api, new_api, return_type_change, decision, runvars>>

NextCompare == CompareFuncs

SpecCompare == InitCompare /\ [][NextCompare]_vars

(***************************************************************************)
(* compare.py: diff_public_api                                             *)
(***************************************************************************)
\* The orders in which a Python set can be iterated.
Perms(S) ==
    {s \in [1..Cardinality(S) -> S] : \A i, j \in 1..Cardinality(S) : s[i] = s[j] => i = j}

Keys(api) == DOMAIN api

\* RemovedSymbol reported at the severity of an addition.
RemovedSymbol_AsMinor(k) == Impact("minor", k, "Removed public symbol")

RemovedSymbol(k) == Impact("major", k, "Removed public symbol")

AddedSymbol(k) == Impact("minor", k, "Added public symbol")

RECURSIVE SurvivingLoop(_, _, _, _)
SurvivingLoop(ks, o, n, rtc) ==
    IF ks = <<>> THEN <<>>
    ELSE compare_funcs(o[Head(ks)], n[Head(ks)], rtc) \o SurvivingLoop(Tail(ks), o, n, rtc)

\* removed, surviving and added are the iteration orders of the three key
\* sets old.keys() - new.keys(), old.keys() & new.keys(), new.keys() - old.keys().
diff_public_api(o, n, rtc, removed, surviving, added) ==
    [i \in 1..Len(removed) |-> RemovedSymbol(removed[i])]
    \o SurvivingLoop(surviving, o, n, rtc)
    \o [i \in 1..Len(added) |-> AddedSymbol(added[i])]

(***************************************************************************)
(* SpecDiff: one call of diff_public_api on a base and a head table.       *)
(***************************************************************************)
MaxSymbols == 2

SymbolNames == <<"m:f", "m:foo", "m:g", "m:C.run">>

SymbolSet == {SymbolNames[i] : i \in 1..MaxSymbols}

\* A PublicAPI table, {s.fullname: s for s in visitor.sigs}, with the keys S;
\* body[k] is the (params, returns) part of the signature of k.
Table(S, body) == [k \in S |-> FuncSig(k, body[k][1], body[k][2])]

\* Signatures f(), f(x), f(x=None), each with and without a return annotation.
SmallBodies ==
    ({<<>>} \cup {<<Param("x", "pos", d, None)>> : d \in {None} \cup DefaultTexts})
    \X ({None} \cup ReturnTexts)

InitDiff ==
    /\ pc = "start"
    /\ \E S \in SUBSET SymbolSet : \E body \in [S -> SmallBodies] :
          old_api = Table(S, body)
    /\ \E S \in SUBSET SymbolSet : \E body \in [S -> SmallBodies] :
          new_api = Table(S, body)
    /\ return_type_change \in RuleLevels
    /\ old = Idle
    /\ new = Idle
    /\ impacts = <<>>
    /\ decision = Idle
    /\ NoRun
    /\ NoSource
    /\ NoRegistry

DiffPublicAPI ==
    /\ pc = "start"
    /\ \E removed \in Perms(Keys(old_api) \ Keys(new_api)),
          surviving \in Perms(Keys(old_api) \cap Keys(new_api)),
          added \in Perms(Keys(new_api) \ Keys(old_api)) :
          impacts' = diff_public_api(old_api, new_api, return_type_change,
                                     removed, surviving, added)
    /\ pc' = "done"
    /\ UNCHANGED <<callvars, old, new, old_api, new_api, return_type_change, decision, runvars>>

NextDiff == DiffPublicAPI

SpecDiff == InitDiff /\ [][NextDiff]_vars

(***************************************************************************)
(* SpecSelfDiff: diff_public_api on one table as both base and head.       *)
(***************************************************************************)
\* Signatures of at most one parameter, of every kind, with and without a
\* default, a parameter annotation and a return annotation.
AnnotatedBodies ==
    {q \in UNION {[1..n -> ParamsOver({"x"}, {None} \cup AnnotationTexts)] :
                    n \in 0..1} : WellFormedParams(q)}
    \X ({None} \cup ReturnTexts)

InitSelfDiff ==
    /\ pc = "start"
    /\ \E S \in SUBSET SymbolSet : \E body \in [S -> AnnotatedBodies] :
          old_api = Table(S, body)
    /\ new_api = old_api
    /\ return_type_change \in RuleLevels
    /\ old = Idle
    /\ new = Idle
    /\ impacts = <<>>
    /\ decision = Idle
    /\ NoRun
    /\ NoSource
    /\ NoRegistry

SpecSelfDiff == InitSelfDiff /\ [][NextDiff]_vars

(***************************************************************************)
(* compare.py: decide_bump                                                 *)
(***************************************************************************)
RECURSIVE Gcd(_, _)
Gcd(a, b) == IF b = 0 THEN a ELSE Gcd(b, a % b)

\* The quotient n / d of two counts, kept exact as a fraction in lowest
\* terms, so that two quotients are equal exactly when their values are.
Ratio(n, d) == [num |-> n \div Gcd(n, d), den |-> d \div Gcd(n, d)]

\* The float 0.0.
Zero == [num |-> 0, den |-> 1]

\* Counter(i.severity for i in impacts), read with counts.get(sev, 0).
Counter(imps) ==
    [sev \in {imps[i].severity : i \in 1..Len(imps)} |->
        Cardinality({i \in 1..Len(imps) : imps[i].severity = sev})]

CounterGet(counts, sev) == IF sev \in DOMAIN counts THEN counts[sev] ELSE 0

RECURSIVE SumValues(_, _)
SumValues(counts, ks) ==
    IF ks = {} THEN 0
    ELSE LET k == CHOOSE k \in ks : TRUE
         IN counts[k] + SumValues(counts, ks \ {k})

\* BumpLevel that tests the minor count before the major count.
BumpLevel_MinorFirst(counts) ==
    IF CounterGet(counts, "minor") # 0 THEN "minor"
    ELSE IF CounterGet(counts, "major") # 0 THEN "major"
    ELSE "patch"

BumpLevel(counts) ==
    IF CounterGet(counts, "major") # 0 THEN "major"
    ELSE IF CounterGet(counts, "minor") # 0 THEN "minor"
    ELSE "patch"

\* Reasons that keeps the reason of every impact, whatever its severity.
Reasons_All(imps, level) == [i \in 1..Len(imps) |-> imps[i].reason]

RECURSIVE Reasons(_, _)
\* [i.reason for i in impacts if i.severity == level]
Reasons(imps, level) ==
    IF imps = <<>> THEN <<>>
    ELSE (IF Head(imps).severity = level THEN <<Head(imps).reason>> ELSE <<>>)
         \o Reasons(Tail(imps), level)

\* Confidence as the share of the impacts that are not at the decided level.
Confidence_Complement(level_count, total) ==
    IF total # 0 THEN Ratio(total - level_count, total) ELSE Zero

Confidence(level_count, total) ==
    IF total # 0 THEN Ratio(level_count, total) ELSE Zero

decide_bump(imps) ==
    IF imps = <<>> THEN Decision(None, Zero, <<>>)
    ELSE LET counts == Counter(imps)
             total == SumValues(counts, DOMAIN counts)
             level == BumpLevel(counts)
             level_count == CounterGet(counts, level)
         IN Decision(level, Confidence(level_count, total), Reasons(imps, level))

(***************************************************************************)
(* SpecDecide: one call of decide_bump on a list of impacts.               *)
(***************************************************************************)
MaxImpacts == 3

\* The three bump severities and the advisory one analyzers may report.
Severities == {"major", "minor", "patch", "warn"}

ReasonTexts == {"Removed public symbol", "Return annotation changed"}

ImpactSet == {Impact(sev, "m:f", r) : sev \in Severities, r \in ReasonTexts}

ImpactLists == UNION {[1..n -> ImpactSet] : n \in 0..MaxImpacts}

InitDecide ==
    /\ pc = "start"
    /\ impacts \in ImpactLists
    /\ old = Idle
    /\ new = Idle
    /\ old_api = Idle
    /\ new_api = Idle
    /\ return_type_change = Idle
    /\ decision = Idle
    /\ NoRun
    /\ NoSource
    /\ NoRegistry

DecideBump ==
    /\ pc = "start"
    /\ decision' = decide_bump(impacts)
    /\ pc' = "done"
    /\ UNCHANGED <<callvars, old, new, old_api, new_api, return_type_change, impacts, runvars>>

NextDecide == DecideBump

SpecDecide == InitDecide /\ [][NextDecide]_vars

(***************************************************************************)
(* public_api.py: extracting the table of one module                       *)
(***************************************************************************)
\* An identifier is its sequence of characters; Text is the string.
RECURSIVE Text(_)
Text(chars) == IF chars = <<>> THEN "" ELSE Head(chars) \o Text(Tail(chars))

\* Nodes of the syntax tree that ast.parse builds.  Absent is the None that
\* stands where a node is optional (annotation, returns, vararg, a missing
\* keyword-only default).
Absent == [type |-> "NoneType"]

Name(id) == [type |-> "Name", id |-> id]

\* A literal: the text of its value and whether the value is a str.
Constant(value, isstr) == [type |-> "Constant", value |-> value, isstr |-> isstr]

List(elts) == [type |-> "List", elts |-> elts]

BinOp(left, op, right) == [type |-> "BinOp", left |-> left, op |-> op, right |-> right]

Call(func, args_, keywords) ==
    [type |-> "Call", func |-> func, args |-> args_, keywords |-> keywords]

arg(name, annotation) == [type |-> "arg", arg |-> name, annotation |-> annotation]

arguments(posonlyargs, args_, vararg, kwonlyargs, kw_defaults, kwarg, defaults) ==
    [posonlyargs |-> posonlyargs, args |-> args_, vararg |-> vararg,
     kwonlyargs |-> kwonlyargs, kw_defaults |-> kw_defaults, kwarg |-> kwarg,
     defaults |-> defaults]

FunctionDef(name, args_, returns) ==
    [type |-> "FunctionDef", name |-> name, args |-> args_, returns |-> returns]

ClassDef(name, body) == [type |-> "ClassDef", name |-> name, body |-> body]

Assign(targets, value) == [type |-> "Assign", targets |-> targets, value |-> value]

\* A compound statement of the module body that is no definition.
If(body) == [type |-> "If", body |-> body]

\* Source text that ast.parse accepts: the statements of the module body.
Module(body) == [exists |-> TRUE, parses |-> TRUE, body |-> body]

\* Source text on which ast.parse raises SyntaxError.
Unparsable == [exists |-> TRUE, parses |-> FALSE, body |-> <<>>]

\* read_file_at_ref returns None: the path is not a file at the reference.
Missing == [exists |-> FALSE, parses |-> FALSE, body |-> <<>>]

Returned(value) == [raised |-> None, value |-> value]

Raised(exc) == [raised |-> exc, value |-> <<>>]

\* ast.unparse of the expressions that stand as defaults and annotations in
\* the model: names and literals.  A str literal is rendered quoted.
unparse(node) ==
    IF node.type = "Name" THEN node.id
    ELSE IF node.isstr THEN "'" \o node.value \o "'"
    ELSE node.value

render_node(node) == IF node.type = "NoneType" THEN None ELSE unparse(node)

\* The value of _eval and of _parse_exports: None, or the names found.
NoExports == [defined |-> FALSE, names |-> {}]

Exports(names) == [defined |-> TRUE, names |-> names]

NotEvaluated == [defined |-> FALSE, list |-> <<>>]

Evaluated(list) == [defined |-> TRUE, list |-> list]

\* The loop over node.elts: every element a str literal, or None.
RECURSIVE EvalElts(_)
EvalElts(elts) ==
    IF elts = <<>> THEN Evaluated(<<>>)
    ELSE IF Head(elts).type = "Constant" /\ Head(elts).isstr
    THEN LET rest == EvalElts(Tail(elts))
         IN IF rest.defined THEN Evaluated(<<Head(elts).value>> \o rest.list)
            ELSE NotEvaluated
    ELSE NotEvaluated

RECURSIVE _eval(_, _)
_eval(node, env_) ==
    IF node.type \in {"List", "Tuple"} THEN EvalElts(node.elts)
    ELSE IF node.type = "BinOp" /\ node.op = "Add"
    THEN LET left == _eval(node.left, env_)
             right == _eval(node.right, env_)
         IN IF left.defined /\ right.defined
            THEN Evaluated(left.list \o right.list)
            ELSE NotEvaluated
    ELSE IF node.type = "Name"
    THEN (IF node.id \in DOMAIN env_ THEN Evaluated(env_[node.id]) ELSE NotEvaluated)
    ELSE NotEvaluated

\* set(evaluated)
ToSet(list) == {list[i] : i \in 1..Len(list)}

\* The loop of _parse_exports over mod.body with the names bound so far.
RECURSIVE ParseExportsLoop(_, _)
ParseExportsLoop(body, env_) ==
    IF body = <<>> THEN NoExports
    ELSE LET stmt == Head(body)
         IN IF stmt.type = "Assign" /\ Len(stmt.targets) = 1
            THEN LET tgt == stmt.targets[1]
                     evaluated == _eval(stmt.value, env_)
                 IN IF tgt.type # "Name" THEN ParseExportsLoop(Tail(body), env_)
                    ELSE IF tgt.id = "__all__"
                    THEN (IF evaluated.defined THEN Exports(ToSet(evaluated.list))
                          ELSE NoExports)
                    ELSE IF evaluated.defined
                    THEN ParseExportsLoop(Tail(body),
                             [k \in (DOMAIN env_) \cup {tgt.id} |->
                                 IF k = tgt.id THEN evaluated.list ELSE env_[k]])
                    ELSE ParseExportsLoop(Tail(body), env_)
            ELSE ParseExportsLoop(Tail(body), env_)

\* env: dict[str, list[str]] = {}
EmptyEnv == [k \in {} |-> <<>>]

_parse_exports(mod) == ParseExportsLoop(mod.body, EmptyEnv)

\* Positional-only and positional-or-keyword parameters; the defaults belong
\* to the tail of the two lists taken together.
_positional_params(args_) ==
    LET posonly == args_.posonlyargs
        pos == args_.args
        defaults == args_.defaults
        total == Len(posonly) + Len(pos)
        d_start == total - Len(defaults)
        both == posonly \o pos
    IN [i \in 1..total |->
          LET idx == i - 1
          IN Param(both[i].arg,
                   IF idx < Len(posonly) THEN "posonly" ELSE "pos",
                   IF idx >= d_start THEN render_node(defaults[idx - d_start + 1])
                   ELSE None,
                   render_node(both[i].annotation))]

_vararg_param(args_) ==
    IF args_.vararg.type # "NoneType"
    THEN <<Param(args_.vararg.arg, "vararg", None, render_node(args_.vararg.annotation))>>
    ELSE <<>>

Min(a, b) == IF a <= b THEN a ELSE b

\* zip(args.kwonlyargs, args.kw_defaults)
_kwonly_params(args_) ==
    [i \in 1..Min(Len(args_.kwonlyargs), Len(args_.kw_defaults)) |->
        Param(args_.kwonlyargs[i].arg, "kwonly",
              render_node(args_.kw_defaults[i]),
              render_node(args_.kwonlyargs[i].annotation))]

_varkw_param(args_) ==
    IF args_.kwarg.type # "NoneType"
    THEN <<Param(args_.kwarg.arg, "varkw", None, render_node(args_.kwarg.annotation))>>
    ELSE <<>>

\* _param_list that takes the defaults from the head of the positional list.
_param_list_HeadDefaults(args_) ==
    LET both == args_.posonlyargs \o args_.args
    IN [i \in 1..Len(both) |->
          Param(both[i].arg,
                IF i <= Len(args_.posonlyargs) THEN "posonly" ELSE "pos",
                IF i <= Len(args_.defaults) THEN render_node(args_.defaults[i])
                ELSE None,
                render_node(both[i].annotation))]
       \o _vararg_param(args_) \o _kwonly_params(args_) \o _varkw_param(args_)

_param_list(args_) ==
    _positional_params(args_) \o _vararg_param(args_)
        \o _kwonly_params(args_) \o _varkw_param(args_)

\* name.startswith("_")
_is_public(name) == ~(Len(name) >= 1 /\ name[1] = "_")

\* not (self.exports is not None and name not in self.exports)
Exported(exports, name) == ~exports.defined \/ Text(name) \in exports.names

\* visit_FunctionDef that lets every name of the export list through.
visit_FunctionDef_ExportsWin(module_name, exports, node) ==
    IF ~Exported(exports, node.name) THEN <<>>
    ELSE IF ~exports.defined /\ ~_is_public(node.name) THEN <<>>
    ELSE <<FuncSig(module_name \o ":" \o Text(node.name),
                   _param_list(node.args), render_node(node.returns))>>

visit_FunctionDef(module_name, exports, node) ==
    IF ~Exported(exports, node.name) THEN <<>>
    ELSE IF ~_is_public(node.name) THEN <<>>
    ELSE <<FuncSig(module_name \o ":" \o Text(node.name),
                   _param_list(node.args), render_node(node.returns))>>

RECURSIVE Methods(_, _, _)
Methods(module_name, cname, body) ==
    IF body = <<>> THEN <<>>
    ELSE (IF Head(body).type = "FunctionDef" /\ _is_public(Head(body).name)
          THEN <<FuncSig(module_name \o ":" \o Text(cname) \o "." \o Text(Head(body).name),
                         _param_list(Head(body).args), render_node(Head(body).returns))>>
          ELSE <<>>)
         \o Methods(module_name, cname, Tail(body))

visit_ClassDef(module_name, exports, node) ==
    IF ~Exported(exports, node.name) THEN <<>>
    ELSE IF ~_is_public(node.name) THEN <<>>
    ELSE Methods(module_name, node.name, node.body)

RECURSIVE Visit(_, _, _)
\* visitor.visit(mod): the statements in order; generic_visit descends into
\* a statement that is neither a function nor a class definition.
Visit(module_name, exports, body) ==
    IF body = <<>> THEN <<>>
    ELSE (IF Head(body).type = "FunctionDef"
          THEN visit_FunctionDef(module_name, exports, Head(body))
          ELSE IF Head(body).type = "ClassDef"
          THEN visit_ClassDef(module_name, exports, Head(body))
          ELSE IF Head(body).type = "If"
          THEN Visit(module_name, exports, Head(body).body)
          ELSE <<>>)
         \o Visit(module_name, exports, Tail(body))

\* {s.fullname: s for s in sigs}: the last signature of a name stays.
SigTable(sigs) ==
    [k \in {sigs[i].fullname : i \in 1..Len(sigs)} |->
        sigs[CHOOSE i \in 1..Len(sigs) :
               /\ sigs[i].fullname = k
               /\ \A j \in 1..Len(sigs) : sigs[j].fullname = k => j <= i]]

\* extract_public_api_from_source that treats an unparsable file as empty.
extract_public_api_from_source_Lenient(module_name, code) ==
    IF ~code.parses THEN Returned(SigTable(<<>>))
    ELSE Returned(SigTable(Visit(module_name, _parse_exports(code), code.body)))

extract_public_api_from_source(module_name, code) ==
    IF ~code.parses THEN Raised("SyntaxError")
    ELSE Returned(SigTable(Visit(module_name, _parse_exports(code), code.body)))

RECURSIVE JoinDot(_)
JoinDot(parts) ==
    IF parts = <<>> THEN ""
    ELSE IF Len(parts) = 1 THEN parts[1]
    ELSE parts[1] \o "." \o JoinDot(Tail(parts))

\* A path is the sequence of its parts, the suffix ".py" removed; the files
\* listed for a root lie under it, so relative_to does not raise.
module_name_from_path(root, path) ==
    JoinDot(SubSeq(path, Len(root) + 1, Len(path)))

\* api.update(fragment)
Update(api, fragment) ==
    [k \in (DOMAIN api) \cup (DOMAIN fragment) |->
        IF k \in DOMAIN fragment THEN fragment[k] ELSE api[k]]

\* No parameters, no defaults.
NoArguments == arguments(<<>>, <<>>, Absent, <<>>, <<>>, Absent, <<>>)

\* Positional-or-keyword parameters without annotations or defaults.
Positional(names) ==
    arguments(<<>>, [i \in 1..Len(names) |-> arg(names[i], Absent)], Absent,
              <<>>, <<>>, Absent, <<>>)

(***************************************************************************)
(* SpecExtract: extract_public_api_from_source applied to one module.      *)
(***************************************************************************)
MaxStatements == 2

StrList(names) == List([i \in 1..Len(names) |-> Constant(names[i], TRUE)])

AssignName(id, value) == Assign(<<Name(id)>>, value)

\* What a module writes before its definitions:
\*   (nothing)
\*   __all__ = ["f", "_h"]
\*   __all__ = ["C"]
\*   names = ["f"]; __all__ = names + ["C"]
\*   __all__ = []
\*   __all__ = make()
\*   __all__ = ["f", 1]
ExportStatements ==
    { <<>>,
      <<AssignName("__all__", StrList(<<"f", "_h">>))>>,
      <<AssignName("__all__", StrList(<<"C">>))>>,
      <<AssignName("names", StrList(<<"f">>)),
        AssignName("__all__", BinOp(Name("names"), "Add", StrList(<<"C">>)))>>,
      <<AssignName("__all__", StrList(<<>>))>>,
      <<AssignName("__all__", Call(Name("make"), <<>>, <<>>))>>,
      <<AssignName("__all__", List(<<Constant("f", TRUE), Constant("1", FALSE)>>))>> }

\* def f(): ...   def _h(): ...   class C: __init__, run, _p   class _D: run
\* if ...: def g(): ...
Definitions ==
    { FunctionDef(<<"f">>, NoArguments, Absent),
      FunctionDef(<<"_", "h">>, NoArguments, Absent),
      ClassDef(<<"C">>, <<FunctionDef(<<"_", "_", "i", "n", "i", "t", "_", "_">>,
                                      Positional(<<"self">>), Absent),
                          FunctionDef(<<"r", "u", "n">>, Positional(<<"self">>), Absent),
                          FunctionDef(<<"_", "p">>, Positional(<<"self">>), Absent)>>),
      ClassDef(<<"_", "D">>, <<FunctionDef(<<"r", "u", "n">>, Positional(<<"self">>), Absent)>>),
      If(<<FunctionDef(<<"g">>, NoArguments, Absent)>>) }

DefinitionLists == UNION {[1..n -> Definitions] : n \in 0..MaxStatements}

InitExtract ==
    /\ pc = "start"
    /\ \E prefix \in ExportStatements, defs \in DefinitionLists :
          source = Module(prefix \o defs)
    /\ result = Idle
    /\ old = Idle
    /\ new = Idle
    /\ old_api = Idle
    /\ new_api = Idle
    /\ return_type_change = Idle
    /\ impacts = Idle
    /\ decision = Idle
    /\ NoRun
    /\ NoRegistry

ExtractPublicApi ==
    /\ pc = "start"
    /\ result' = extract_public_api_from_source("m", source)
    /\ pc' = "done"
    /\ UNCHANGED <<source, REGISTRY, calls, old, new, old_api, new_api,
                   return_type_change, impacts, decision, runvars>>

NextExtract == ExtractPublicApi

SpecExtract == InitExtract /\ [][NextExtract]_vars

(***************************************************************************)
(* SpecSignature: the parameter list of one extracted function.            *)
(***************************************************************************)
MaxArgs == 2

\* The parameters p1, p2, ... of one list, without annotations.
ArgList(prefix, n) == [i \in 1..n |-> arg(prefix \o ToString(i), Absent)]

\* The argument lists the parser can build: no more defaults than
\* positional parameters, one kw_defaults entry for each keyword-only one.
InitSignature ==
    /\ pc = "start"
    /\ \E p \in 0..MaxArgs, q \in 0..MaxArgs, k \in 0..MaxArgs,
          v \in BOOLEAN, w \in BOOLEAN :
          \E d \in 0..(p + q), kwd \in [1..k -> {Absent, Constant("2", FALSE)}] :
             source = Module(<<FunctionDef(<<"f">>,
                          arguments(ArgList("a", p), ArgList("b", q),
                                    IF v THEN arg("args", Absent) ELSE Absent,
                                    ArgList("k", k), kwd,
                                    IF w THEN arg("kwargs", Absent) ELSE Absent,
                                    [i \in 1..d |-> Constant("None", FALSE)]),
                          Absent)>>)
    /\ result = Idle
    /\ old = Idle
    /\ new = Idle
    /\ old_api = Idle
    /\ new_api = Idle
    /\ return_type_change = Idle
    /\ impacts = Idle
    /\ decision = Idle
    /\ NoRun
    /\ NoRegistry

SpecSignature == InitSignature /\ [][NextExtract]_vars

(***************************************************************************)
(* analyzers/__init__.py: the analyzer registry.                           *)
(***************************************************************************)
MaxCalls == 3

\* d[k] = v
SetItem(d, k, v) == [x \in (DOMAIN d) \cup {k} |-> IF x = k THEN v ELSE d[x]]

\* The registry after a call, and what the call returned or raised.
Outcome(registry, outcome) == [registry |-> registry, outcome |-> outcome]

\* _wrap that replaces an existing registration whatever override says.
_wrap_Overwrite(registry, name, override, cls) ==
    Outcome(SetItem(registry, name, cls), Returned(cls))

\* _wrap that keeps the class registered first when override is given.
_wrap_KeepFirst(registry, name, override, cls) ==
    IF ~override /\ name \in DOMAIN registry
    THEN Outcome(registry, Raised("AnalyzerRegistrationError"))
    ELSE IF name \in DOMAIN registry THEN Outcome(registry, Returned(cls))
    ELSE Outcome(SetItem(registry, name, cls), Returned(cls))

_wrap(registry, name, override, cls) ==
    IF ~override /\ name \in DOMAIN registry
    THEN Outcome(registry, Raised("AnalyzerRegistrationError"))
    ELSE Outcome(SetItem(registry, name, cls), Returned(cls))

\* register(name, override=override)(cls)
register(registry, name, override, cls) == _wrap(registry, name, override, cls)

get(registry, name) ==
    IF name \in DOMAIN registry THEN Returned(registry[name])
    ELSE Raised("AnalyzerNotFoundError")

\* One call on the registry and its outcome.
CallRecord(op, name, cls, override, outcome) ==
    [op |-> op, name |-> name, cls |-> cls, override |-> override,
     raised |-> outcome.raised, value |-> outcome.value]

PluginNames == {"web_routes", "dummy_test_plugin", "missing_plugin"}

Classes == {"Dummy", "Duplicate"}

\* The registrations made when the package is imported.
BuiltIns == << <<"cli", "CLIAnalyzer">>, <<"web_routes", "WebRoutesAnalyzer">> >>

BuiltInCalls ==
    [i \in 1..Len(BuiltIns) |->
        CallRecord("register", BuiltIns[i][1], BuiltIns[i][2], FALSE,
                   Returned(BuiltIns[i][2]))]

BuiltInRegistry ==
    [k \in {BuiltIns[i][1] : i \in 1..Len(BuiltIns)} |->
        BuiltIns[CHOOSE i \in 1..Len(BuiltIns) : BuiltIns[i][1] = k][2]]

InitRegistry ==
    /\ pc = "start"
    /\ REGISTRY = BuiltInRegistry
    /\ calls = BuiltInCalls
    /\ result = Returned(BuiltIns[Len(BuiltIns)][2])
    /\ source = Idle
    /\ old = Idle
    /\ new = Idle
    /\ old_api = Idle
    /\ new_api = Idle
    /\ return_type_change = Idle
    /\ impacts = Idle
    /\ decision = Idle
    /\ NoRun

Register ==
    /\ Len(calls) < Len(BuiltInCalls) + MaxCalls
    /\ \E name \in PluginNames, cls \in Classes, override \in BOOLEAN :
          LET r == register(REGISTRY, name, override, cls)
          IN /\ REGISTRY' = r.registry
             /\ result' = r.outcome
             /\ calls' = Append(calls, CallRecord("register", name, cls, override, r.outcome))
    /\ UNCHANGED <<pc, source, old, new, old_api, new_api, return_type_change,
                   impacts, decision, runvars>>

Get ==
    /\ Len(calls) < Len(BuiltInCalls) + MaxCalls
    /\ \E name \in PluginNames :
          /\ result' = get(REGISTRY, name)
          /\ calls' = Append(calls, CallRecord("get", name, None, FALSE, get(REGISTRY, name)))
    /\ UNCHANGED <<REGISTRY, pc, source, old, new, old_api, new_api,
                   return_type_change, impacts, decision, runvars>>

NextRegistry == Register \/ Get

SpecRegistry == InitRegistry /\ [][NextRegistry]_vars

(***************************************************************************)
(* Surface analyzers: analyzers/web_routes.py, analysers/openapi.py,       *)
(* semverbump/analyzers/cli.py.                                            *)
(***************************************************************************)
\* Iteration over a Python set follows no order the program fixes: the
\* elements of S are met in the order in which `order` lists them.
Iterate(S, order) == SelectSeq(order, LAMBDA k : k \in S)

RECURSIVE Flatten(_)
Flatten(seqs) == IF seqs = <<>> THEN <<>> ELSE Head(seqs) \o Flatten(Tail(seqs))

Route(path, method, params) == [path |-> path, method |-> method, params |-> params]

\* f"{method} {path}" for a key (path, method)
RouteSymbol(key) == key[2] \o " " \o key[1]

\* Removed route reported with the path before the method.
RemovedRoute_PathFirst(key) == Impact("major", key[1] \o " " \o key[2], "Removed route")

RemovedRoute(key) == Impact("major", RouteSymbol(key), "Removed route")

AddedRoute(key) == Impact("minor", RouteSymbol(key), "Added route")

RemovedRouteParam(op, symbol, p) ==
    IF op[p] THEN Impact("major", symbol, "Removed required param '" \o p \o "'")
    ELSE Impact("minor", symbol, "Removed optional param '" \o p \o "'")

AddedRouteParam(np, symbol, p) ==
    IF np[p] THEN Impact("major", symbol, "Added required param '" \o p \o "'")
    ELSE Impact("minor", symbol, "Added optional param '" \o p \o "'")

\* ChangedRouteParam with the two severities exchanged.
ChangedRouteParam_Swapped(op, np, symbol, p) ==
    (IF op[p] /\ ~np[p]
     THEN <<Impact("major", symbol, "Param '" \o p \o "' became optional")>> ELSE <<>>)
    \o (IF ~op[p] /\ np[p]
        THEN <<Impact("minor", symbol, "Param '" \o p \o "' became required")>> ELSE <<>>)

ChangedRouteParam(op, np, symbol, p) ==
    (IF op[p] /\ ~np[p]
     THEN <<Impact("minor", symbol, "Param '" \o p \o "' became optional")>> ELSE <<>>)
    \o (IF ~op[p] /\ np[p]
        THEN <<Impact("major", symbol, "Param '" \o p \o "' became required")>> ELSE <<>>)

\* The body of the loop over old.keys() & new.keys().
RouteParamImpacts(op, np, symbol, names) ==
    LET gone == Iterate(DOMAIN op \ DOMAIN np, names)
        fresh == Iterate(DOMAIN np \ DOMAIN op, names)
        kept == Iterate(DOMAIN op \cap DOMAIN np, names)
    IN [i \in 1..Len(gone) |-> RemovedRouteParam(op, symbol, gone[i])]
       \o [i \in 1..Len(fresh) |-> AddedRouteParam(np, symbol, fresh[i])]
       \o Flatten([i \in 1..Len(kept) |-> ChangedRouteParam(op, np, symbol, kept[i])])

\* keys and names give the order in which the sets of keys and of parameter
\* names are iterated.
diff_routes(o, n, keys, names) ==
    LET gone == Iterate(DOMAIN o \ DOMAIN n, keys)
        fresh == Iterate(DOMAIN n \ DOMAIN o, keys)
        kept == Iterate(DOMAIN o \cap DOMAIN n, keys)
    IN [i \in 1..Len(gone) |-> RemovedRoute(gone[i])]
       \o [i \in 1..Len(fresh) |-> AddedRoute(fresh[i])]
       \o Flatten([i \in 1..Len(kept) |->
              RouteParamImpacts(o[kept[i]].params, n[kept[i]].params,
                                RouteSymbol(kept[i]), names)])

\* openapi.Spec
OpenAPISpec(endpoints, schemas) == [endpoints |-> endpoints, schemas |-> schemas]

\* A schema present on both sides reported whether or not it changed.
ChangedSchema_Always(o, n, name) == <<Impact("major", name, "Changed schema")>>

ChangedSchema(o, n, name) ==
    IF o.schemas[name] # n.schemas[name]
    THEN <<Impact("major", name, "Changed schema")>> ELSE <<>>

AddedSchema_AsMajor(name) == Impact("major", name, "Added schema")

AddedSchema(name) == Impact("minor", name, "Added schema")

diff_specs(o, n, eps, names) ==
    LET gone == Iterate(o.endpoints \ n.endpoints, eps)
        fresh == Iterate(n.endpoints \ o.endpoints, eps)
        sgone == Iterate(DOMAIN o.schemas \ DOMAIN n.schemas, names)
        sfresh == Iterate(DOMAIN n.schemas \ DOMAIN o.schemas, names)
        skept == Iterate(DOMAIN o.schemas \cap DOMAIN n.schemas, names)
    IN [i \in 1..Len(gone) |-> Impact("major", RouteSymbol(gone[i]), "Removed endpoint")]
       \o [i \in 1..Len(fresh) |-> Impact("minor", RouteSymbol(fresh[i]), "Added endpoint")]
       \o [i \in 1..Len(sgone) |-> Impact("major", sgone[i], "Removed schema")]
       \o [i \in 1..Len(sfresh) |-> AddedSchema(sfresh[i])]
       \o Flatten([i \in 1..Len(skept) |-> ChangedSchema(o, n, skept[i])])

CommandSpec(options) == [options |-> options]

\* cmd or "<root>"
CommandSymbol(cmd) == IF cmd = "" THEN "<root>" ELSE cmd

AddedOption(n, cmd, opt) ==
    IF n[opt] THEN Impact("major", CommandSymbol(cmd), "Added required option")
    ELSE Impact("minor", CommandSymbol(cmd), "Added optional option")

ChangedOption(o, n, cmd, opt) ==
    IF o[opt] # n[opt]
    THEN <<Impact("major", CommandSymbol(cmd), "Option '" \o opt \o "' requirement changed")>>
    ELSE <<>>

\* The body of the loop over old_cmds & new_cmds.
OptionImpacts(o, n, cmd, opts) ==
    LET gone == Iterate(DOMAIN o \ DOMAIN n, opts)
        fresh == Iterate(DOMAIN n \ DOMAIN o, opts)
        kept == Iterate(DOMAIN o \cap DOMAIN n, opts)
    IN [i \in 1..Len(gone) |->
           Impact("major", CommandSymbol(cmd), "Removed option '" \o gone[i] \o "'")]
       \o [i \in 1..Len(fresh) |-> AddedOption(n, cmd, fresh[i])]
       \o Flatten([i \in 1..Len(kept) |-> ChangedOption(o, n, cmd, kept[i])])

diff_cli(o, n, cmds, opts) ==
    LET gone == Iterate(DOMAIN o \ DOMAIN n, cmds)
        fresh == Iterate(DOMAIN n \ DOMAIN o, cmds)
        kept == Iterate(DOMAIN o \cap DOMAIN n, cmds)
    IN [i \in 1..Len(gone) |-> Impact("major", CommandSymbol(gone[i]), "Removed command")]
       \o [i \in 1..Len(fresh) |-> Impact("minor", CommandSymbol(fresh[i]), "Added command")]
       \o Flatten([i \in 1..Len(kept) |->
              OptionImpacts(o[kept[i]].options, n[kept[i]].options, kept[i], opts)])

(***************************************************************************)
(* SpecSurface: compare(old, new) of one surface analyzer.                 *)
(***************************************************************************)
RouteKeys == {<<"/foo", "GET">>, <<"/bar", "POST">>}

RouteParamNames == {"q", "limit"}

SchemaNames == {"User", "Item", "Order"}

\* Two schema bodies that differ only below their properties.
SchemaBody(id_type) ==
    [type |-> "object", properties |-> [id |-> [type |-> id_type]]]

SchemaBodies == {SchemaBody("integer"), SchemaBody("string")}

Commands == {"", "run"}

OptionNames == {"force", "name"}

\* dict[str, bool] over some of the names: True if required.
RequiredFlags(names) == UNION {[N -> BOOLEAN] : N \in SUBSET names}

RouteTable(S, body) == [k \in S |-> Route(k[1], k[2], body[k])]

CLITable(S, body) == [c \in S |-> CommandSpec(body[c])]

SurfaceNames == {"web_routes", "openapi", "cli"}

InitSurface ==
    /\ pc = "start"
    /\ args \in [analyzer : SurfaceNames]
    /\ \/ /\ args.analyzer = "web_routes"
          /\ \E S \in SUBSET RouteKeys : \E body \in [S -> RequiredFlags(RouteParamNames)] :
                old = RouteTable(S, body)
          /\ \E S \in SUBSET RouteKeys : \E body \in [S -> RequiredFlags(RouteParamNames)] :
                new = RouteTable(S, body)
       \/ /\ args.analyzer = "openapi"
          /\ \E E \in SUBSET RouteKeys, S \in SUBSET SchemaNames : \E body \in [S -> SchemaBodies] :
                old = OpenAPISpec(E, body)
          /\ \E E \in SUBSET RouteKeys, S \in SUBSET SchemaNames : \E body \in [S -> SchemaBodies] :
                new = OpenAPISpec(E, body)
       \/ /\ args.analyzer = "cli"
          /\ \E S \in SUBSET Commands : \E body \in [S -> RequiredFlags(OptionNames)] :
                old = CLITable(S, body)
          /\ \E S \in SUBSET Commands : \E body \in [S -> RequiredFlags(OptionNames)] :
                new = CLITable(S, body)
    /\ impacts = <<>>
    /\ old_api = Idle
    /\ new_api = Idle
    /\ return_type_change = Idle
    /\ decision = Idle
    /\ env = Idle
    /\ repo = Idle
    /\ cursor = Idle
    /\ stdout = Idle
    /\ error = Idle
    /\ NoSource
    /\ NoRegistry

DiffRoutes ==
    /\ pc = "start"
    /\ args.analyzer = "web_routes"
    /\ \E keys \in Perms(RouteKeys), names \in Perms(RouteParamNames) :
          impacts' = diff_routes(old, new, keys, names)
    /\ pc' = "done"
    /\ UNCHANGED <<callvars, old, new, old_api, new_api, return_type_change, decision, runvars>>

DiffSpecs ==
    /\ pc = "start"
    /\ args.analyzer = "openapi"
    /\ \E eps \in Perms(RouteKeys), names \in Perms(SchemaNames) :
          impacts' = diff_specs(old, new, eps, names)
    /\ pc' = "done"
    /\ UNCHANGED <<callvars, old, new, old_api, new_api, return_type_change, decision, runvars>>

DiffCli ==
    /\ pc = "start"
    /\ args.analyzer = "cli"
    /\ \E cmds \in Perms(Commands), opts \in Perms(OptionNames) :
          impacts' = diff_cli(old, new, cmds, opts)
    /\ pc' = "done"
    /\ UNCHANGED <<callvars, old, new, old_api, new_api, return_type_change, decision, runvars>>

NextSurface == DiffRoutes \/ DiffSpecs \/ DiffCli

SpecSurface == InitSurface /\ [][NextSurface]_vars

(***************************************************************************)
(* Spec: a run of the bump command (cli/bump.py, cli/decide.py).           *)
(***************************************************************************)
MaxFiles == 2

\* The public root "." and the Python files under it, in sorted order.
Root == <<>>

SourcePaths == << <<"m">>, <<"pkg", "n">>, <<"q">> >>

Refs == {"base", "head"}

\* def f(x): ...  def _h(): ...
SourceA ==
    Module(<<FunctionDef(<<"f">>, Positional(<<"x">>), Absent),
             FunctionDef(<<"_", "h">>, NoArguments, Absent)>>)

\* def f(x, y): ...  class C: def run(self) -> int: ...  def _p(self): ...
SourceB ==
    Module(<<FunctionDef(<<"f">>, Positional(<<"x", "y">>), Absent),
             ClassDef(<<"C">>,
                 <<FunctionDef(<<"r", "u", "n">>, Positional(<<"self">>), Name("int")),
                   FunctionDef(<<"_", "p">>, Positional(<<"self">>), Absent)>>)>>)

\* What git shows for a path at a reference.
SourceSet == {Missing, Unparsable, SourceA, SourceB}

\* What the enabled analyzers report for the two references.
AnalyzerImpacts == {<<>>, <<Impact("major", "GET /foo", "Removed route")>>}

EmptyAPI == SigTable(<<>>)

\* No Decision has been built.
NoDecision == Decision(Idle, Zero, <<>>)

Init ==
    /\ pc = "start"
    /\ args \in [decide : BOOLEAN, level : {None, "patch"}]
    /\ env \in [pyproject_found : BOOLEAN, relevant_changes : BOOLEAN]
    /\ repo \in [Refs -> [1..MaxFiles -> SourceSet]]
    /\ return_type_change \in RuleLevels
    /\ cursor = [ref |-> "base", idx |-> 1]
    /\ stdout = <<>>
    /\ error = None
    /\ old = Idle
    /\ new = Idle
    /\ old_api = EmptyAPI
    /\ new_api = EmptyAPI
    /\ impacts = <<>>
    /\ decision = NoDecision
    /\ NoSource
    /\ NoRegistry

\* bump_command up to the choice between --decide, an inferred level and a
\* given level.
BumpCommand ==
    /\ pc = "start"
    /\ IF args.decide
       THEN pc' = "build" /\ UNCHANGED <<stdout, decision>>
       ELSE IF ~env.pyproject_found
       THEN /\ stdout' = Append(stdout, [text |-> "Error: pyproject.toml not found"])
            /\ pc' = "done"
            /\ UNCHANGED decision
       ELSE IF ~env.relevant_changes
       THEN /\ stdout' = Append(stdout, [text |-> "No version bump needed"])
            /\ pc' = "done"
            /\ UNCHANGED decision
       ELSE IF args.level = None
       THEN pc' = "build" /\ UNCHANGED <<stdout, decision>>
       ELSE /\ decision' = Decision(args.level, [num |-> 1, den |-> 1], <<>>)
            /\ pc' = "apply"
            /\ UNCHANGED stdout
    /\ UNCHANGED <<callvars, old, new, old_api, new_api, return_type_change, impacts,
                   args, env, repo, cursor, error>>

\* One turn of the loop of _build_api_at_ref, for the base and then the head.
BuildApiAtRef ==
    /\ pc = "build"
    /\ LET code == repo[cursor.ref][cursor.idx]
           modname == module_name_from_path(Root, SourcePaths[cursor.idx])
           res == IF ~code.exists THEN Returned(EmptyAPI)
                  ELSE extract_public_api_from_source(modname, code)
       IN IF res.raised # None
          THEN /\ error' = res.raised
               /\ pc' = "raised"
               /\ UNCHANGED <<old_api, new_api, cursor>>
          ELSE /\ IF cursor.ref = "base"
                  THEN old_api' = Update(old_api, res.value) /\ UNCHANGED new_api
                  ELSE new_api' = Update(new_api, res.value) /\ UNCHANGED old_api
               /\ IF cursor.idx < MaxFiles
                  THEN cursor' = [cursor EXCEPT !.idx = @ + 1] /\ pc' = "build"
                  ELSE IF cursor.ref = "base"
                  THEN cursor' = [ref |-> "head", idx |-> 1] /\ pc' = "build"
                  ELSE cursor' = cursor /\ pc' = "diff"
               /\ UNCHANGED error
    /\ UNCHANGED <<callvars, old, new, return_type_change, impacts, decision,
                   args, env, repo, stdout>>

DiffApis ==
    /\ pc = "diff"
    /\ \E removed \in Perms(Keys(old_api) \ Keys(new_api)),
          surviving \in Perms(Keys(old_api) \cap Keys(new_api)),
          added \in Perms(Keys(new_api) \ Keys(old_api)) :
          impacts' = diff_public_api(old_api, new_api, return_type_change,
                                     removed, surviving, added)
    /\ pc' = "analyze"
    /\ UNCHANGED <<callvars, old, new, old_api, new_api, return_type_change, decision, runvars>>

RunAnalyzers ==
    /\ pc = "analyze"
    /\ \E found \in AnalyzerImpacts : impacts' = impacts \o found
    /\ pc' = "decide"
    /\ UNCHANGED <<callvars, old, new, old_api, new_api, return_type_change, decision, runvars>>

Decide ==
    /\ pc = "decide"
    /\ decision' = decide_bump(impacts)
    /\ pc' = "report"
    /\ UNCHANGED <<callvars, old, new, old_api, new_api, return_type_change, impacts, runvars>>

\* The end of _decide_only, and of bump_command after _infer_level.
Report ==
    /\ pc = "report"
    /\ IF args.decide
       THEN /\ stdout' = Append(stdout, [text |-> "Suggested bump",
                                         level |-> decision.level,
                                         impacts |-> impacts])
            /\ pc' = "done"
       ELSE IF decision.level = None
       THEN /\ stdout' = Append(stdout, [text |-> "No version bump needed"])
            /\ pc' = "done"
       ELSE pc' = "apply" /\ UNCHANGED stdout
    /\ UNCHANGED <<callvars, old, new, old_api, new_api, return_type_change, impacts, decision,
                   args, env, repo, cursor, error>>

ApplyBump ==
    /\ pc = "apply"
    /\ stdout' = Append(stdout, [text |-> "Bumped version",
                                 level |-> decision.level,
                                 confidence |-> decision.confidence,
                                 reasons |-> decision.reasons])
    /\ pc' = "done"
    /\ UNCHANGED <<callvars, old, new, old_api, new_api, return_type_change, impacts, decision,
                   args, env, repo, cursor, error>>

Next ==
    \/ BumpCommand
    \/ BuildApiAtRef
    \/ DiffApis
    \/ RunAnalyzers
    \/ Decide
    \/ Report
    \/ ApplyBump

Spec == Init /\ [][Next]_vars

(***************************************************************************)
(* SpecAnalyzers: _run_analyzers (cli/decide.py) over the registry.        *)
(***************************************************************************)
\* The names a configuration or a flag can give; "missing" is registered
\* by nothing.
AnalyzerNames == {"cli", "web_routes", "missing"}

\* names = set(cfg.analyzers.enabled) with enable added first and disable
\* removed second, so that enable wins over disable.
EffectiveNames_EnableLast(enabled, enable, disable) == (enabled \ disable) \cup enable

\* names = set(cfg.analyzers.enabled); names.update(enable);
\* names.difference_update(disable)
EffectiveNames(enabled, enable, disable) == (enabled \cup enable) \ disable

\* The registration of a name, or None.
get_analyzer_info(registry, name) ==
    IF name \in DOMAIN registry THEN [found |-> TRUE, cls |-> registry[name]]
    ELSE [found |-> FALSE, cls |-> None]

\* analyzer.collect(ref): the surface the analyzer class reads at a reference.
Collect(cls, surfaces, ref) ==
    IF cls = "WebRoutesAnalyzer" THEN surfaces[ref].routes ELSE surfaces[ref].cli

\* analyzer.compare(old, new)
Compare(cls, o, n, orders) ==
    IF cls = "WebRoutesAnalyzer" THEN diff_routes(o, n, orders.keys, orders.names)
    ELSE diff_cli(o, n, orders.cmds, orders.opts)

\* One call made during _run_analyzers: what was called, for which analyzer
\* name, with which argument, and what it returned.
AnalyzerCall(op, name, arg_, value) == [op |-> op, name |-> name, arg |-> arg_, value |-> value]

\* The body of the loop for one registered name.
RunAnalyzer(name, cls, base, head, surfaces, orders) ==
    LET o == Collect(cls, surfaces, base)
        n == Collect(cls, surfaces, head)
        found == Compare(cls, o, n, orders)
    IN [impacts |-> found,
        calls |-> <<AnalyzerCall("__init__", name, "cfg", cls),
                    AnalyzerCall("collect", name, base, o),
                    AnalyzerCall("collect", name, head, n),
                    AnalyzerCall("compare", name, <<o, n>>, found)>>]

RECURSIVE RunLoop(_, _, _, _, _, _)
\* for name in names, in the order the set is iterated
RunLoop(names, registry, base, head, surfaces, orders) ==
    IF names = <<>> THEN [impacts |-> <<>>, calls |-> <<>>]
    ELSE LET name == Head(names)
             info == get_analyzer_info(registry, name)
             rest == RunLoop(Tail(names), registry, base, head, surfaces, orders)
         IN IF ~info.found
            THEN [impacts |-> rest.impacts,
                  calls |-> <<AnalyzerCall("logger.warning", name,
                                           "Analyzer is not registered", None)>>
                            \o rest.calls]
            ELSE LET one == RunAnalyzer(name, info.cls, base, head, surfaces, orders)
                 IN [impacts |-> one.impacts \o rest.impacts,
                     calls |-> one.calls \o rest.calls]

_run_analyzers(base, head, cfg, enable, disable, registry, surfaces, orders) ==
    LET names == EffectiveNames(cfg.analyzers.enabled, enable, disable)
    IN RunLoop(Iterate(names, orders.analyzers), registry, base, head, surfaces, orders)

\* dict[str, bool] with no entry
NoFlags == [p \in {} |-> TRUE]

\* Route tables and CLI trees of handlers and commands without parameters.
PlainRouteTables == {RouteTable(S, [k \in S |-> NoFlags]) : S \in SUBSET RouteKeys}

PlainCLITables == {CLITable(S, [c \in S |-> NoFlags]) : S \in {{""}, {"", "run"}}}

InitAnalyzers ==
    /\ pc = "start"
    /\ args \in [enable_analyzer : SUBSET AnalyzerNames,
                 disable_analyzer : SUBSET AnalyzerNames]
    /\ env \in [cfg : [analyzers : [enabled : SUBSET AnalyzerNames]]]
    /\ repo \in [Refs -> [routes : PlainRouteTables, cli : PlainCLITables]]
    /\ REGISTRY = BuiltInRegistry
    /\ calls = <<>>
    /\ impacts = <<>>
    /\ error = None
    /\ decision = NoDecision
    /\ cursor = Idle
    /\ stdout = Idle
    /\ old = Idle
    /\ new = Idle
    /\ old_api = Idle
    /\ new_api = Idle
    /\ return_type_change = Idle
    /\ NoSource

CallRunAnalyzers ==
    /\ pc = "start"
    /\ \E analyzers \in Perms(AnalyzerNames), keys \in Perms(RouteKeys),
          cmds \in Perms(Commands) :
          LET orders == [analyzers |-> analyzers, keys |-> keys, cmds |-> cmds,
                         names |-> <<>>, opts |-> <<>>]
              run == _run_analyzers("base", "head", env.cfg, args.enable_analyzer,
                                    args.disable_analyzer, REGISTRY, repo, orders)
          IN /\ impacts' = run.impacts
             /\ calls' = run.calls
    /\ pc' = "done"
    /\ UNCHANGED <<source, result, REGISTRY, old, new, old_api, new_api,
                   return_type_change, decision, runvars>>

NextAnalyzers == CallRunAnalyzers

SpecAnalyzers == InitAnalyzers /\ [][NextAnalyzers]_vars

(***************************************************************************)
(* SpecLookup: registrations and the calls that read the registry.         *)
(***************************************************************************)
\* load_enabled that records the names it does not find.
load_enabled_SetDefault(registry, names) ==
    Outcome([k \in (DOMAIN registry) \cup {names[i] : i \in 1..Len(names)} |->
                IF k \in DOMAIN registry THEN registry[k] ELSE None],
            Returned(SelectSeq(names, LAMBDA k : k \in DOMAIN registry)))

\* load_enabled for the names of cfg.analyzers.enabled in iteration order:
\* the registry after the call and the classes instantiated.
load_enabled(registry, names) ==
    LET found == SelectSeq(names, LAMBDA k : k \in DOMAIN registry)
    IN Outcome(registry, Returned([i \in 1..Len(found) |-> registry[found[i]]]))

\* The names that can be registered, in sorted order.
SortedNames == <<"cli", "dummy_test_plugin", "missing_plugin", "web_routes">>

\* sorted(REGISTRY.keys())
available(registry) == Outcome(registry, Returned(Iterate(DOMAIN registry, SortedNames)))

\* What _run_analyzers returns, or the CalledProcessError of the first
\* collect when git does not know the reference.
RunOutcome(run, known_ref) ==
    IF ~known_ref /\ \E i \in 1..Len(run.calls) : run.calls[i].op = "collect"
    THEN Raised("CalledProcessError")
    ELSE Returned(run.impacts)

TestPlugins == {"dummy_test_plugin", "missing_plugin"}

LookupNames == {SortedNames[i] : i \in 1..Len(SortedNames)}

InitLookup ==
    /\ pc = "start"
    /\ REGISTRY = BuiltInRegistry
    /\ old = BuiltInRegistry
    /\ calls = <<>>
    /\ result = Returned(BuiltIns[Len(BuiltIns)][2])
    /\ \E routes \in PlainRouteTables :
          repo = [ref \in Refs |->
                     [routes |-> IF ref = "base" THEN RouteTable(RouteKeys, [k \in RouteKeys |-> NoFlags])
                                 ELSE routes,
                      cli |-> CLITable({""}, [c \in {""} |-> NoFlags])]]
    /\ source = Idle
    /\ new = Idle
    /\ old_api = Idle
    /\ new_api = Idle
    /\ return_type_change = Idle
    /\ impacts = Idle
    /\ decision = Idle
    /\ args = Idle
    /\ env = Idle
    /\ cursor = Idle
    /\ stdout = Idle
    /\ error = Idle

\* One step: `calls` holds the call made last and `old` the registry as it
\* was before that call.
Called(record, outcome, registry) ==
    /\ old' = REGISTRY
    /\ REGISTRY' = registry
    /\ result' = outcome
    /\ calls' = <<record>>
    /\ UNCHANGED <<pc, source, new, old_api, new_api, return_type_change,
                   impacts, decision, runvars>>

RegisterPlugin ==
    \E name \in TestPlugins, cls \in Classes, override \in BOOLEAN :
        LET r == register(REGISTRY, name, override, cls)
        IN Called(CallRecord("register", name, cls, override, r.outcome),
                  r.outcome, r.registry)

GetPlugin ==
    \E name \in LookupNames :
        Called(CallRecord("get", name, None, FALSE, get(REGISTRY, name)),
               get(REGISTRY, name), REGISTRY)

LoadEnabled ==
    \E enabled \in SUBSET LookupNames : \E order \in Perms(enabled) :
        LET r == load_enabled(REGISTRY, order)
        IN Called(CallRecord("load_enabled", enabled, None, FALSE, r.outcome),
                  r.outcome, r.registry)

Available ==
    LET r == available(REGISTRY)
    IN Called(CallRecord("available", None, None, FALSE, r.outcome), r.outcome, r.registry)

RunEnabled ==
    \E enabled \in SUBSET AnalyzerNames, known_ref \in BOOLEAN :
        \E analyzers \in Perms(AnalyzerNames), keys \in Perms(RouteKeys) :
            LET orders == [analyzers |-> analyzers, keys |-> keys, cmds |-> <<"">>,
                           names |-> <<>>, opts |-> <<>>]
                cfg == [analyzers |-> [enabled |-> enabled]]
                run == _run_analyzers("base", "head", cfg, {}, {}, REGISTRY, repo, orders)
                outcome == RunOutcome(run, known_ref)
            IN Called(CallRecord("_run_analyzers", enabled, None, FALSE, outcome),
                      outcome, REGISTRY)

NextLookup ==
    \/ RegisterPlugin
    \/ GetPlugin
    \/ LoadEnabled
    \/ Available
    \/ RunEnabled

SpecLookup == InitLookup /\ [][NextLookup]_vars

(***************************************************************************)
(* analyzers/migrations.py: impacts of changed Alembic migration scripts.  *)
(***************************************************************************)
MaxOps == 2

Attribute(value, attr) == [type |-> "Attribute", value |-> value, attr |-> attr]

keyword(name, value) == [type |-> "keyword", arg |-> name, value |-> value]

Expr(value) == [type |-> "Expr", value |-> value]

\* A function definition read for its name and the statements of its body.
Def(name, body) == [type |-> "FunctionDef", name |-> name, body |-> body]

\* bool(value) of a literal.
bool(node) ==
    IF node.isstr THEN node.value # "" ELSE node.value \notin {"False", "None", "0"}

\* {kw.arg: kw.value for kw in column.keywords if kw.arg}; the keywords of a
\* call that parses have distinct names.
KeywordNames(keywords) ==
    {keywords[i].arg : i \in {j \in 1..Len(keywords) : keywords[j].arg # None}}

KeywordValue(keywords, name) ==
    keywords[CHOOSE i \in 1..Len(keywords) : keywords[i].arg = name].value

\* The loop over node.args: the first positional argument that is a call of
\* an attribute named Column, or <<>> for None.
RECURSIVE FirstColumn(_)
FirstColumn(args_) ==
    IF args_ = <<>> THEN <<>>
    ELSE IF /\ Head(args_).type = "Call"
            /\ Head(args_).func.type = "Attribute"
            /\ Head(args_).func.attr = "Column"
    THEN <<Head(args_)>>
    ELSE FirstColumn(Tail(args_))

_analyze_add_column_AlwaysMinor(node, path) ==
    IF FirstColumn(node.args) = <<>> THEN <<>>
    ELSE <<Impact("minor", path, "Added column")>>

\* The Optional[Impact] is the sequence of no impact or of one.
_analyze_add_column(node, path) ==
    LET column == FirstColumn(node.args)
    IN IF column = <<>> THEN <<>>
       ELSE LET kwargs == column[1].keywords
                nullable ==
                    IF /\ "nullable" \in KeywordNames(kwargs)
                       /\ KeywordValue(kwargs, "nullable").type = "Constant"
                    THEN bool(KeywordValue(kwargs, "nullable"))
                    ELSE TRUE
                has_default ==
                    \/ "default" \in KeywordNames(kwargs)
                    \/ "server_default" \in KeywordNames(kwargs)
            IN IF ~nullable /\ ~has_default
               THEN <<Impact("major", path, "Added non-nullable column")>>
               ELSE <<Impact("minor", path, "Added column")>>

\* _UpgradeVisitor.visit_Call without the descent into the node.
visit_Call(node, path) ==
    IF /\ node.func.type = "Attribute"
       /\ node.func.value.type = "Name"
       /\ node.func.value.id = "op"
    THEN IF node.func.attr = "drop_column"
         THEN <<Impact("major", path, "Dropped column")>>
         ELSE IF node.func.attr = "add_column"
         THEN _analyze_add_column(node, path)
         ELSE IF node.func.attr = "create_index"
         THEN <<Impact("minor", path, "Added index")>>
         ELSE <<>>
    ELSE <<>>

\* NodeVisitor.visit: the impacts appended while the node and, by
\* generic_visit, the nodes below it are visited in field order.
RECURSIVE visit(_, _)
RECURSIVE VisitEach(_, _)
visit(node, path) ==
    IF node.type = "Call"
    THEN visit_Call(node, path) \o visit(node.func, path)
         \o VisitEach(node.args, path) \o VisitEach(node.keywords, path)
    ELSE IF node.type \in {"Expr", "keyword", "Attribute"} THEN visit(node.value, path)
    ELSE IF node.type \in {"If", "FunctionDef"} THEN VisitEach(node.body, path)
    ELSE <<>>

VisitEach(nodes, path) ==
    IF nodes = <<>> THEN <<>>
    ELSE visit(Head(nodes), path) \o VisitEach(Tail(nodes), path)

\* The loop of _analyze_content over tree.body.
RECURSIVE UpgradeLoop(_, _)
UpgradeLoop(body, path) ==
    IF body = <<>> THEN <<>>
    ELSE (IF Head(body).type = "FunctionDef" /\ Head(body).name = "upgrade"
          THEN VisitEach(Head(body).body, path)
          ELSE <<>>) \o UpgradeLoop(Tail(body), path)

_analyze_content_Strict(path, content) ==
    IF ~content.parses THEN <<Impact("major", path, "Unparsable migration")>>
    ELSE UpgradeLoop(content.body, path)

_analyze_content(path, content) ==
    IF ~content.parses THEN <<>> ELSE UpgradeLoop(content.body, path)

\* A path of the repository is its parts and the suffix of its last part.
RepoPath(parts, suffix) == [parts |-> parts, suffix |-> suffix]

RECURSIVE JoinSlash(_)
JoinSlash(parts) ==
    IF parts = <<>> THEN ""
    ELSE IF Len(parts) = 1 THEN parts[1]
    ELSE parts[1] \o "/" \o JoinSlash(Tail(parts))

\* The str that git prints for the path.
PathText(path) == JoinSlash(path.parts) \o path.suffix

\* path == d or path.startswith(f"{d}/") for a directory d of str(Path(p)).
UnderDir(path, d) ==
    \/ path.suffix = "" /\ path.parts = d
    \/ /\ Len(path.parts) > Len(d)
       /\ SubSeq(path.parts, 1, Len(d)) = d

\* git diff --name-only base..head
changed_paths(base, head, tree) == {p \in DOMAIN tree[head] : tree[base][p] # tree[head][p]}

\* git show ref:path
read_file_at_ref(ref, path, tree) == tree[ref][path]

\* The loop of analyze_migrations over the changed paths.
RECURSIVE MigrationLoop(_, _, _, _)
MigrationLoop(paths, head, dirs, tree) ==
    IF paths = <<>> THEN <<>>
    ELSE LET path == Head(paths)
             content == read_file_at_ref(head, path, tree)
             found == IF path.suffix # ".py" THEN <<>>
                      ELSE IF ~\E i \in 1..Len(dirs) : UnderDir(path, dirs[i]) THEN <<>>
                      ELSE IF ~content.exists THEN <<>>
                      ELSE _analyze_content(PathText(path), content)
         IN found \o MigrationLoop(Tail(paths), head, dirs, tree)

analyze_migrations(base, head, config, tree, order) ==
    MigrationLoop(Iterate(changed_paths(base, head, tree), order), head, config.paths, tree)

(***************************************************************************)
(* SpecMigrations: analyze_migrations on a repository with two migration   *)
(* scripts, a README beside them and a module outside the directory.       *)
(***************************************************************************)
OpCall(attr, args_) == Call(Attribute(Name("op"), attr), args_, <<>>)

TableArg == Constant("t", TRUE)

ColumnCall(func, keywords) == Call(func, <<Constant("c", TRUE)>>, keywords)

\* The keywords of the Column(...) calls of the scripts.
ColumnKeywords ==
    {<<>>,
     <<keyword("nullable", Constant("True", FALSE))>>,
     <<keyword("nullable", Constant("False", FALSE))>>,
     <<keyword("nullable", Constant("False", FALSE)),
       keyword("default", Constant("1", FALSE))>>,
     <<keyword("nullable", Constant("False", FALSE)),
       keyword("server_default", Constant("0", TRUE))>>,
     <<keyword("nullable", Name("flag"))>>}

AddColumn(func, keywords) ==
    OpCall("add_column", <<TableArg, ColumnCall(func, keywords)>>)

\* The statements of the upgrade functions: calls on op with and without a
\* column, sa.Column(...) and Column(...), a call under an if, a call on
\* another object and a call passed as an argument.
Operations ==
    {Expr(OpCall(attr, <<TableArg>>)) :
        attr \in {"drop_column", "add_column", "create_index", "drop_index", "execute"}}
    \cup {Expr(AddColumn(Attribute(Name("sa"), "Column"), k)) : k \in ColumnKeywords}
    \cup {Expr(AddColumn(Name("Column"), <<keyword("nullable", Constant("False", FALSE))>>)),
          If(<<Expr(OpCall("drop_column", <<TableArg>>))>>),
          Expr(Call(Attribute(Name("batch"), "drop_column"), <<TableArg>>, <<>>)),
          Expr(Call(Name("log"), <<OpCall("create_index", <<TableArg>>)>>, <<>>))}

\* The statements that follow the first one of an upgrade function.
LaterOperations ==
    {Expr(OpCall(attr, <<TableArg>>)) : attr \in {"drop_column", "create_index", "drop_index"}}
    \cup {Expr(AddColumn(Attribute(Name("sa"), "Column"),
                         <<keyword("nullable", Constant("False", FALSE))>>))}

\* The bodies of at most n statements.
UpgradeBodies(n) ==
    {<<>>} \cup {<<first>> \o rest : first \in Operations,
                                     rest \in UNION {[1..k -> LaterOperations] : k \in 0..(n - 1)}}

DropColumn == Expr(OpCall("drop_column", <<TableArg>>))

\* A script with upgrade() alone, and one that also calls op at module level
\* and in downgrade().
Scripts ==
    {Module(<<Def("upgrade", body)>>) : body \in UpgradeBodies(MaxOps)}
    \cup {Module(<<DropColumn, Def("upgrade", body), Def("downgrade", <<DropColumn>>)>>) :
            body \in UpgradeBodies(1)}

IndexScript == Module(<<Def("upgrade", <<Expr(OpCall("create_index", <<TableArg>>))>>)>>)

DropScript == Module(<<Def("upgrade", <<DropColumn>>)>>)

FirstScript == RepoPath(<<"migrations", "0001_a">>, ".py")

SecondScript == RepoPath(<<"migrations", "versions", "0002_b">>, ".py")

Readme == RepoPath(<<"migrations", "README">>, ".md")

ModelsFile == RepoPath(<<"app", "models">>, ".py")

RepoPaths == {FirstScript, SecondScript, Readme, ModelsFile}

\* Migrations.paths of the configuration.
MigrationDirs == {<< <<"migrations">> >>, << <<"app">>, <<"migrations">> >>}

Tree(first, second, other) ==
    [p \in RepoPaths |->
        IF p = FirstScript THEN first ELSE IF p = SecondScript THEN second ELSE other]

InitMigrations ==
    /\ pc = "start"
    /\ \E first \in Scripts \cup {Missing, Unparsable},
          second \in {Missing, Unparsable, IndexScript},
          second_base \in {Missing, IndexScript} :
          repo = [base |-> Tree(Missing, second_base, Missing),
                  head |-> Tree(first, second, DropScript)]
    /\ env \in [migrations : [paths : MigrationDirs]]
    /\ impacts = <<>>
    /\ args = Idle
    /\ cursor = Idle
    /\ stdout = Idle
    /\ error = Idle
    /\ old = Idle
    /\ new = Idle
    /\ old_api = Idle
    /\ new_api = Idle
    /\ return_type_change = Idle
    /\ decision = Idle
    /\ NoSource
    /\ NoRegistry

AnalyzeMigrations ==
    /\ pc = "start"
    /\ \E order \in Perms(changed_paths("base", "head", repo)) :
          impacts' = analyze_migrations("base", "head", env.migrations, repo, order)
    /\ pc' = "done"
    /\ UNCHANGED <<callvars, old, new, old_api, new_api, return_type_change, decision,
                   runvars>>

NextMigrations == AnalyzeMigrations

SpecMigrations == InitMigrations /\ [][NextMigrations]_vars

(***************************************************************************)
(* versioning.py and cli/bump.py: applying the bump to the working tree.   *)
(***************************************************************************)
\* A version X.Y.Z is the sequence of its three numbers.
\* bump_string for the three levels that --level and decide_bump produce.
bump_string(v, level) ==
    IF level = "major" THEN <<v[1] + 1, 0, 0>>
    ELSE IF level = "minor" THEN <<v[1], v[2] + 1, 0>>
    ELSE <<v[1], v[2], v[3] + 1>>

VersionChange(old_, new_, level, files) ==
    [old |-> old_, new |-> new_, level |-> level, files |-> files]

\* Path(p).parent and Path(p).name
Parent(path) == SubSeq(path.parts, 1, Len(path.parts) - 1)

PathName(path) == RepoPath(<<path.parts[Len(path.parts)]>>, path.suffix)

\* A pattern of version.paths: a path relative to the directory of the
\* pyproject file, or "**/" before a file name.
Pattern(recursive, path) == [recursive |-> recursive, path |-> path]

\* any(ch in p for ch in "*?[")
HasWildcard(pattern) == pattern.recursive

\* glob(str(base / pat), recursive=True) yields the file.
Matches(pattern, base, file) ==
    IF pattern.recursive
    THEN /\ Len(file.parts) >= Len(base) + 1
         /\ SubSeq(file.parts, 1, Len(base)) = base
         /\ PathName(file) = PathName(pattern.path)
    ELSE file = RepoPath(base \o pattern.path.parts, pattern.path.suffix)

\* A file of the working tree: whether it exists, the version string it
\* holds (<<>> if none) and, for a changelog, its entries.
File(version, entries) == [exists |-> TRUE, version |-> version, entries |-> entries]

NoFile == [exists |-> FALSE, version |-> <<>>, entries |-> <<>>]

\* _resolve_files: the existing files that a pattern matches and no ignore
\* pattern does, sorted.
_resolve_files(patterns, ignore, base_dir, files, sorted) ==
    SelectSeq(sorted,
              LAMBDA f : /\ files[f].exists
                         /\ \E i \in 1..Len(patterns) : Matches(patterns[i], base_dir, f)
                         /\ ~\E i \in 1..Len(ignore) : Matches(ignore[i], base_dir, f))

\* _replace_version: the old version string becomes the new one.
_replace_version(file, old_, new_) ==
    IF file.version = old_ THEN [file EXCEPT !.version = new_] ELSE file

\* The files that _update_additional_files rewrites.
UpdatedFiles(patterns, ignore, pyproject_path, files, sorted) ==
    SelectSeq(_resolve_files(patterns, ignore, Parent(pyproject_path), files, sorted),
              LAMBDA f : f # pyproject_path)

\* apply_bump: the VersionChange returned and the files of the tree after.
apply_bump(level, pyproject_path, dry_run, paths, ignore, files, sorted) ==
    LET old_ == files[pyproject_path].version
        new_ == bump_string(old_, level)
        updated == UpdatedFiles(paths, ignore, pyproject_path, files, sorted)
    IN IF dry_run
       THEN [vc |-> VersionChange(old_, new_, level, <<>>), files |-> files]
       ELSE [vc |-> VersionChange(old_, new_, level, <<pyproject_path>> \o updated),
             files |-> [f \in DOMAIN files |->
                           IF f = pyproject_path THEN [files[f] EXCEPT !.version = new_]
                           ELSE IF \E i \in 1..Len(updated) : updated[i] = f
                           THEN _replace_version(files[f], old_, new_)
                           ELSE files[f]]]

\* _commit_tag: the commits and tags of the repository after.
_commit_tag(git, pyproject, version, commit, tag) ==
    [commits |-> IF commit
                 THEN Append(git.commits, [message |-> <<"chore(release)", version>>,
                                           files |-> <<pyproject>>])
                 ELSE git.commits,
     tags |-> IF tag THEN Append(git.tags, version) ELSE git.tags]

\* _build_changelog: the entry for the new version, <<>> for None.
_build_changelog(changelog, new_version, commits) ==
    IF changelog = None THEN <<>>
    ELSE <<[version |-> new_version, commits |-> commits]>>

\* version_files of bump_command
version_files(paths) == {paths[i].path : i \in {j \in 1..Len(paths) : ~HasWildcard(paths[j])}}

\* filtered of bump_command
FilteredPaths(changed, pyproject, paths) ==
    {p \in changed : p # PathName(pyproject) /\ p \notin version_files(paths)}

(***************************************************************************)
(* SpecBump: bump_command without --decide in a repository that holds two  *)
(* pyproject files, a setup.py and a package.                              *)
(***************************************************************************)
RootProject == RepoPath(<<"pyproject">>, ".toml")

PkgProject == RepoPath(<<"pkg", "pyproject">>, ".toml")

SetupFile == RepoPath(<<"setup">>, ".py")

PkgInit == RepoPath(<<"pkg", "__init__">>, ".py")

ChangelogFile == RepoPath(<<"CHANGELOG">>, ".md")

\* The paths of the working tree in sorted order.
TreePaths == <<ChangelogFile, PkgInit, PkgProject, RootProject, SetupFile>>

\* The paths that git diff may list.
DiffPaths == {RootProject, PkgProject, SetupFile, PkgInit}

\* version.paths: pyproject.toml, setup.py, **/__init__.py
VersionPaths ==
    <<Pattern(FALSE, RootProject), Pattern(FALSE, SetupFile),
      Pattern(TRUE, RepoPath(<<"__init__">>, ".py"))>>

StartVersion == <<1, 2, 3>>

\* The file that open(args.changelog, "a") opens: CHANGELOG.md is the one
\* file name given.
OpenPath(name) == ChangelogFile

\* What changed_paths returns, or None when git diff fails.
Changed(ok, paths) == [ok |-> ok, paths |-> paths]

\* The command has not returned; it returned the code.
Running == Returned(<<>>)

Exit(code) == Returned(<<code>>)

NoChange == VersionChange(<<>>, <<>>, None, <<>>)

InitBump ==
    /\ pc = "start"
    /\ args \in [level : {None, "patch", "major"}, dry_run : BOOLEAN, commit : BOOLEAN,
                 tag : BOOLEAN, changelog : {None, "-", "CHANGELOG.md"},
                 pyproject : {RootProject, PkgProject},
                 version_path : {<<>>}, version_ignore : {<<>>}]
    /\ \E path \in {"", "CHANGELOG.md"}, ok \in BOOLEAN, paths \in SUBSET DiffPaths :
          /\ ok \/ paths = {}
          /\ env = [cfg |-> [changelog |-> [path |-> path],
                             version |-> [paths |-> VersionPaths, ignore |-> <<>>]],
                    changed |-> Changed(ok, paths),
                    commits |-> <<"fix: parser">>]
    /\ \E notes \in {NoFile, File(<<>>, <<"notes">>)} :
          repo = [files |-> [f \in {TreePaths[i] : i \in 1..Len(TreePaths)} |->
                                IF f = ChangelogFile THEN notes
                                ELSE File(StartVersion, <<>>)],
                  commits |-> <<>>,
                  tags |-> <<>>]
    /\ impacts \in {<<>>, <<Impact("warn", "dummy", "ran")>>,
                    <<Impact("major", "m:f", "Removed public symbol")>>}
    /\ decision = NoDecision
    /\ cursor = [level |-> None, vc |-> NoChange]
    /\ stdout = <<>>
    /\ result = Running
    /\ error = None
    /\ source = Idle
    /\ old = Idle
    /\ new = Idle
    /\ old_api = Idle
    /\ new_api = Idle
    /\ return_type_change = Idle
    /\ NoRegistry

\* bump_command, lines 88-96: the changelog of the configuration is the
\* default of --changelog.
LoadConfig ==
    /\ pc = "start"
    /\ args' = IF args.changelog = None /\ env.cfg.changelog.path # ""
               THEN [args EXCEPT !.changelog = env.cfg.changelog.path]
               ELSE args
    /\ cursor' = [cursor EXCEPT !.level = args.level]
    /\ pc' = "changed"
    /\ UNCHANGED <<source, result, REGISTRY, calls, old, new, old_api, new_api,
                   return_type_change, impacts, decision, env, repo, stdout, error>>

\* bump_command, lines 104-115.
CheckChanged ==
    /\ pc = "changed"
    /\ LET paths == env.cfg.version.paths \o args.version_path
       IN IF /\ env.changed.ok
             /\ FilteredPaths(env.changed.paths, args.pyproject, paths) = {}
          THEN /\ stdout' = Append(stdout, [text |-> "No version bump needed"])
               /\ result' = Exit(0)
               /\ pc' = "done"
          ELSE /\ pc' = "level"
               /\ UNCHANGED <<stdout, result>>
    /\ UNCHANGED <<source, REGISTRY, calls, old, new, old_api, new_api,
                   return_type_change, impacts, decision, args, env, repo, cursor, error>>

\* bump_command, lines 117-124; _infer_level decides on the impacts found
\* between base and head.
InferLevel ==
    /\ pc = "level"
    /\ IF cursor.level = None
       THEN /\ decision' = decide_bump(impacts)
            /\ IF decision'.level = None
               THEN /\ stdout' = Append(stdout, [text |-> "No version bump needed"])
                    /\ result' = Exit(0)
                    /\ pc' = "done"
                    /\ UNCHANGED cursor
               ELSE /\ cursor' = [cursor EXCEPT !.level = decision'.level]
                    /\ pc' = "apply"
                    /\ UNCHANGED <<stdout, result>>
       ELSE /\ decision' = Decision(cursor.level, [num |-> 1, den |-> 1], <<>>)
            /\ pc' = "apply"
            /\ UNCHANGED <<stdout, result, cursor>>
    /\ UNCHANGED <<source, REGISTRY, calls, old, new, old_api, new_api,
                   return_type_change, impacts, args, env, repo, error>>

\* bump_command, lines 126-135.
CallApplyBump ==
    /\ pc = "apply"
    /\ LET paths == env.cfg.version.paths \o args.version_path
           ignore == env.cfg.version.ignore \o args.version_ignore
           applied == apply_bump(cursor.level, args.pyproject, args.dry_run, paths,
                                 ignore, repo.files, TreePaths)
       IN /\ repo' = [repo EXCEPT !.files = applied.files]
          /\ cursor' = [cursor EXCEPT !.vc = applied.vc]
    /\ pc' = "report"
    /\ UNCHANGED <<source, result, REGISTRY, calls, old, new, old_api, new_api,
                   return_type_change, impacts, decision, args, env, stdout, error>>

\* bump_command, lines 136-165, for --format text.
ReportBump ==
    /\ pc = "report"
    /\ LET vc == cursor.vc
           changelog == _build_changelog(args.changelog, vc.new, env.commits)
           git == IF args.dry_run THEN [commits |-> repo.commits, tags |-> repo.tags]
                  ELSE _commit_tag(repo, args.pyproject, vc.new, args.commit, args.tag)
           bumped == [text |-> "Bumped version", old |-> vc.old, new |-> vc.new,
                      level |-> vc.level, files |-> vc.files]
       IN /\ stdout' = IF changelog # <<>> /\ args.changelog = "-"
                       THEN stdout \o <<bumped, [text |-> "changelog", entries |-> changelog]>>
                       ELSE Append(stdout, bumped)
          /\ repo' = [files |->
                         IF changelog # <<>> /\ args.changelog # "-"
                         THEN [repo.files EXCEPT ![OpenPath(args.changelog)] =
                                  File(@.version, @.entries \o changelog)]
                         ELSE repo.files,
                      commits |-> git.commits,
                      tags |-> git.tags]
    /\ result' = Exit(0)
    /\ pc' = "done"
    /\ UNCHANGED <<source, REGISTRY, calls, old, new, old_api, new_api,
                   return_type_change, impacts, decision, args, env, cursor, error>>

NextBump ==
    \/ LoadConfig
    \/ CheckChanged
    \/ InferLevel
    \/ CallApplyBump
    \/ ReportBump

SpecBump == InitBump /\ [][NextBump]_vars

(***************************************************************************)
(* semverbump/analyzers/cli.py: the command line interface at a reference. *)
(* _load_cli_from_source hands the text of cli.py to exec; the statements  *)
(* below are the ones the sources of the model are written with, run as    *)
(* the interpreter runs them.  The sources import argparse, os and sys and *)
(* define no subcommands.                                                  *)
(***************************************************************************)
Raise(exc) == [type |-> "Raise", exc |-> exc]

Return(value) == [type |-> "Return", value |-> value]

\* def name(): body
Function(name, body) ==
    [type |-> "FunctionDef", name |-> name, args |-> NoArguments, returns |-> Absent,
     body |-> body]

\* The objects a name of the namespace is bound to.
ParserObject(actions) == [type |-> "ArgumentParser", actions |-> actions]

FunctionObject(body) == [type |-> "function", body |-> body]

\* An action of a parser: its dest, whether it has option strings, required.
Action(dest, optional, required) ==
    [dest |-> dest, option_strings |-> optional, required |-> required]

\* argparse.ArgumentParser(): the parser with its -h/--help action.
NewParser == ParserObject(<<Action("help", TRUE, FALSE)>>)

\* The interpreter between two statements: the namespace, the statements of
\* the source run so far, the exception in flight, the value returned.
Frame(ns, log, raised, returned) ==
    [ns |-> ns, log |-> log, raised |-> raised, returned |-> returned, halted |-> FALSE]

\* ns: Dict[str, Any] = {}
EmptyNamespace == [k \in {} |-> Absent]

\* ns.get(name)
NsGet(ns, name) == IF name \in DOMAIN ns THEN ns[name] ELSE Absent

\* func.value.id "." func.attr
Dotted(func) == func.value.id \o "." \o func.attr

\* How a statement that ran is written in the log.
Label(stmt) == IF stmt.type = "Expr" THEN Dotted(stmt.value.func) ELSE stmt.type

RECURSIVE lstrip(_)
\* flag.lstrip("-")
lstrip(flag) == IF flag # <<>> /\ Head(flag) = "-" THEN lstrip(Tail(flag)) ELSE flag

\* parser.add_argument(flag, required=...)
add_argument(parser, node) ==
    LET flag == node.args[1].value
        optional == Head(flag) = "-"
        names == KeywordNames(node.keywords)
        required == IF ~optional THEN TRUE
                    ELSE IF "required" \in names
                    THEN bool(KeywordValue(node.keywords, "required"))
                    ELSE FALSE
    IN ParserObject(Append(parser.actions, Action(Text(lstrip(flag)), optional, required)))

\* The value of an expression: a new parser, or None.
Evaluate(node) ==
    IF node.type = "Call" /\ node.func.type = "Attribute"
       /\ Dotted(node.func) = "argparse.ArgumentParser"
    THEN NewParser
    ELSE Absent

\* A call that stands as a statement.
ExecCall(node, frame) ==
    IF Dotted(node.func) = "sys.exit" THEN [frame EXCEPT !.raised = "SystemExit"]
    ELSE IF Dotted(node.func) = "parser.add_argument"
    THEN (IF NsGet(frame.ns, "parser").type = "ArgumentParser"
          THEN [frame EXCEPT !.ns = SetItem(@, "parser",
                                       add_argument(frame.ns["parser"], node))]
          ELSE [frame EXCEPT !.raised = "AttributeError"])
    ELSE frame

\* One statement of the source; frame.log already names it.
ExecStatement(stmt, frame) ==
    IF stmt.type = "Assign"
    THEN [frame EXCEPT !.ns = SetItem(@, stmt.targets[1].id, Evaluate(stmt.value))]
    ELSE IF stmt.type = "FunctionDef"
    THEN [frame EXCEPT !.ns = SetItem(@, Text(stmt.name), FunctionObject(stmt.body))]
    ELSE IF stmt.type = "Expr" THEN ExecCall(stmt.value, frame)
    ELSE IF stmt.type = "Raise" THEN [frame EXCEPT !.raised = stmt.exc]
    ELSE IF stmt.type = "Return"
    THEN [frame EXCEPT !.returned = Evaluate(stmt.value), !.halted = TRUE]
    ELSE frame

RECURSIVE ExecBody(_, _)
\* The statements in order, up to a raise or a return.
ExecBody(body, frame) ==
    IF body = <<>> \/ frame.raised # None \/ frame.halted THEN frame
    ELSE ExecBody(Tail(body),
                  ExecStatement(Head(body), [frame EXCEPT !.log = Append(@, Label(Head(body)))]))

\* exec(src, ns): compiling a text that does not parse raises SyntaxError.
exec(src, log) ==
    IF ~src.parses THEN Frame(EmptyNamespace, log, "SyntaxError", Absent)
    ELSE ExecBody(src.body, Frame(EmptyNamespace, log, None, Absent))

\* Exceptions that "except Exception" catches: SystemExit is none of them.
IsException(exc) == exc # "SystemExit"

\* _extract_argparse of a parser without subcommands.
_extract_argparse(parser, prefix) ==
    LET kept == SelectSeq(parser.actions, LAMBDA a : a.dest # "help")
        dests == {kept[i].dest : i \in 1..Len(kept)}
        last(dest) == CHOOSE i \in 1..Len(kept) :
                         kept[i].dest = dest /\ \A j \in i + 1..Len(kept) : kept[j].dest # dest
        required(a) == IF ~a.option_strings THEN TRUE ELSE a.required
    IN [c \in {prefix} |-> CommandSpec([d \in dests |-> required(kept[last(d)])])]

\* {}
EmptyCLI == [c \in {} |-> CommandSpec(NoFlags)]

\* extract_cli where click is not installed.
extract_cli(obj) ==
    IF obj.type = "ArgumentParser" THEN _extract_argparse(obj, "") ELSE EmptyCLI

\* What a call gave and the statements of the analysed source it ran.
Traced(outcome, log) == [outcome |-> outcome, log |-> log]

_load_cli_from_source(src, log) ==
    LET ran == exec(src, log)
        parser == NsGet(ran.ns, "parser")
        obj == IF parser.type # "NoneType" THEN parser ELSE NsGet(ran.ns, "cli")
        called == ExecBody(obj.body, Frame(ran.ns, ran.log, None, Absent))
    IN IF ran.raised # None
       THEN (IF IsException(ran.raised) THEN Traced(Returned(EmptyCLI), ran.log)
             ELSE Traced(Raised(ran.raised), ran.log))
       ELSE IF obj.type = "function"
       THEN (IF called.raised # None THEN Traced(Raised(called.raised), called.log)
             ELSE Traced(Returned(extract_cli(called.returned)), called.log))
       ELSE Traced(Returned(extract_cli(obj)), ran.log)

\* f"{package}/cli.py" if package else "cli.py"
CliPath(package) == IF package # "" THEN package \o "/cli.py" ELSE "cli.py"

build_cli_at_ref(ref, package, tree, log) ==
    LET src == read_file_at_ref(ref, CliPath(package), tree)
    IN IF ~src.exists THEN Traced(Returned(EmptyCLI), log)
       ELSE _load_cli_from_source(src, log)

(***************************************************************************)
(* SpecCollect: diff_cli_at_refs on a repository whose cli.py differs at   *)
(* the two references, and the public API of the same file.                *)
(***************************************************************************)
Packages == {"", "pkg"}

Flag(chars) == Constant(chars, TRUE)

\* parser = argparse.ArgumentParser()
MakeParser ==
    AssignName("parser", Call(Attribute(Name("argparse"), "ArgumentParser"), <<>>, <<>>))

\* parser.add_argument(flag, **keywords)
AddArgument(flag, keywords) ==
    Expr(Call(Attribute(Name("parser"), "add_argument"), <<Flag(flag)>>, keywords))

\* os.remove("data.db")
RemoveFile == Expr(Call(Attribute(Name("os"), "remove"), <<Constant("data.db", TRUE)>>, <<>>))

\* sys.exit(3)
SysExit == Expr(Call(Attribute(Name("sys"), "exit"), <<Constant("3", FALSE)>>, <<>>))

\* return argparse.ArgumentParser()
ReturnParser == Return(Call(Attribute(Name("argparse"), "ArgumentParser"), <<>>, <<>>))

\* The texts of cli.py.
CliSources ==
    { Module(<<>>),
      Module(<<MakeParser>>),
      Module(<<MakeParser, AddArgument(<<"-", "-", "x">>, <<>>)>>),
      Module(<<MakeParser,
               AddArgument(<<"-", "-", "x">>, <<keyword("required", Constant("True", FALSE))>>)>>),
      Module(<<MakeParser, AddArgument(<<"n", "a", "m", "e">>, <<>>)>>),
      Module(<<RemoveFile, MakeParser>>),
      Module(<<RemoveFile, Raise("RuntimeError")>>),
      Module(<<AddArgument(<<"-", "-", "x">>, <<>>)>>),
      Module(<<SysExit, MakeParser>>),
      Module(<<Function(<<"c", "l", "i">>, <<ReturnParser>>)>>),
      Module(<<Function(<<"c", "l", "i">>, <<RemoveFile, ReturnParser>>)>>),
      Module(<<Function(<<"c", "l", "i">>, <<Raise("RuntimeError")>>)>>),
      Module(<<Function(<<"m", "a", "i", "n">>, <<RemoveFile>>)>>),
      Module(<<AssignName("parser", Constant("None", FALSE)),
               Function(<<"c", "l", "i">>, <<ReturnParser>>)>>),
      Unparsable,
      Missing }

InitCollect ==
    /\ pc = "start"
    /\ args \in [package : Packages]
    /\ \E base \in CliSources, head \in CliSources :
          repo = [ref \in Refs |->
                    [p \in {CliPath(package) : package \in Packages} |->
                        IF p # CliPath(args.package) THEN Missing
                        ELSE IF ref = "base" THEN base ELSE head]]
    /\ calls = <<>>
    /\ old = EmptyCLI
    /\ new = EmptyCLI
    /\ impacts = <<>>
    /\ result = Returned(EmptyAPI)
    /\ error = None
    /\ source = Idle
    /\ REGISTRY = Idle
    /\ old_api = Idle
    /\ new_api = Idle
    /\ return_type_change = Idle
    /\ decision = Idle
    /\ env = Idle
    /\ cursor = Idle
    /\ stdout = Idle

\* old = build_cli_at_ref(base, package)
BuildCliAtBase ==
    /\ pc = "start"
    /\ LET built == build_cli_at_ref("base", args.package, repo, calls)
       IN /\ calls' = built.log
          /\ IF built.outcome.raised = None
             THEN old' = built.outcome.value /\ pc' = "head" /\ error' = error
             ELSE old' = old /\ pc' = "done" /\ error' = built.outcome.raised
    /\ UNCHANGED <<new, impacts, result, args, repo, source, REGISTRY, old_api, new_api,
                   return_type_change, decision, env, cursor, stdout>>

\* new = build_cli_at_ref(head, package)
BuildCliAtHead ==
    /\ pc = "head"
    /\ LET built == build_cli_at_ref("head", args.package, repo, calls)
       IN /\ calls' = built.log
          /\ IF built.outcome.raised = None
             THEN new' = built.outcome.value /\ pc' = "diff" /\ error' = error
             ELSE new' = new /\ pc' = "done" /\ error' = built.outcome.raised
    /\ UNCHANGED <<old, impacts, result, args, repo, source, REGISTRY, old_api, new_api,
                   return_type_change, decision, env, cursor, stdout>>

\* return diff_cli(old, new)
DiffCliAtRefs ==
    /\ pc = "diff"
    /\ \E cmds \in Perms({""}), opts \in Perms({"x", "name"}) :
          impacts' = diff_cli(old, new, cmds, opts)
    /\ pc' = "api"
    /\ UNCHANGED <<old, new, calls, result, error, args, repo, source, REGISTRY, old_api,
                   new_api, return_type_change, decision, env, cursor, stdout>>

\* The public API of the same file at head: the text is parsed, not run.
ExtractCliModule ==
    /\ pc = "api"
    /\ repo["head"][CliPath(args.package)].exists
    /\ result' = extract_public_api_from_source("cli", repo["head"][CliPath(args.package)])
    /\ pc' = "done"
    /\ UNCHANGED <<old, new, calls, impacts, error, args, repo, source, REGISTRY, old_api,
                   new_api, return_type_change, decision, env, cursor, stdout>>

NextCollect ==
    \/ BuildCliAtBase
    \/ BuildCliAtHead
    \/ DiffCliAtRefs
    \/ ExtractCliModule

SpecCollect == InitCollect /\ [][NextCollect]_vars

(***************************************************************************)
(* Properties.                                                             *)
(***************************************************************************)
Done == pc = "done"

\* Indices of the impacts that satisfy P.
Where(imps, P(_)) == {i \in 1..Len(imps) : P(imps[i])}

NamesOf(sig) == {sig.params[i].name : i \in 1..Len(sig.params)}

\* The parameter called n (names are distinct in the signatures drawn).
ParamNamed(sig, n) ==
    sig.params[CHOOSE i \in 1..Len(sig.params) : sig.params[i].name = n]

Required(p) == p.default = None /\ p.kind \in {"posonly", "pos", "kwonly"}

KindChangedText(n, a, b) == "Param '" \o n \o "' kind changed " \o a \o "->" \o b

\* Every reason compare_funcs can give about the parameter called n.
AboutParam(n) ==
    {"Removed required param '" \o n \o "'", "Removed optional param '" \o n \o "'",
     "Added required param '" \o n \o "'", "Added optional param '" \o n \o "'"}
    \cup {KindChangedText(n, a, b) : a \in KindSet, b \in KindSet}

\* C1: after diff_public_api, every key of old only has exactly one impact,
\* Impact(major, k, "Removed public symbol"), every key of new only has
\* exactly one impact, Impact(minor, k, "Added public symbol"), a key of both
\* tables has neither of them and no impact at all when its two signatures
\* are equal; base {m:f} against an empty head gives that one major impact.
C1_SymbolImpacts ==
    Done =>
      /\ \A k \in Keys(old_api) \ Keys(new_api) :
           /\ Cardinality(Where(impacts, LAMBDA i : i.symbol = k)) = 1
           /\ \E i \in 1..Len(impacts) :
                impacts[i] = Impact("major", k, "Removed public symbol")
      /\ \A k \in Keys(new_api) \ Keys(old_api) :
           /\ Cardinality(Where(impacts, LAMBDA i : i.symbol = k)) = 1
           /\ \E i \in 1..Len(impacts) :
                impacts[i] = Impact("minor", k, "Added public symbol")
      /\ \A k \in Keys(old_api) \cap Keys(new_api) :
           /\ Where(impacts, LAMBDA i : /\ i.symbol = k
                                         /\ i.reason \in {"Removed public symbol",
                                                          "Added public symbol"}) = {}
           /\ old_api[k] = new_api[k] => Where(impacts, LAMBDA i : i.symbol = k) = {}
      /\ (Keys(old_api) = {"m:f"} /\ Keys(new_api) = {})
           => impacts = <<Impact("major", "m:f", "Removed public symbol")>>

C1_Witness ==
    /\ Done
    /\ Keys(old_api) = {"m:f"}
    /\ Keys(new_api) = {}
    /\ impacts = <<Impact("major", "m:f", "Removed public symbol")>>

\* C2: after compare_funcs, every parameter name present in exactly one of
\* the two signatures has exactly one impact, on the symbol: major if the
\* parameter is required on the side where it exists, minor otherwise.
\* foo(x) -> foo(x, y) gives Impact(major, "m:foo", "Added required param
\* 'y'"), foo(x) -> foo(x, *, y=None) gives Impact(minor, "m:foo", "Added
\* optional param 'y'"), a removed required parameter gives a major impact,
\* and added optional or variadic parameters alone give no major impact.
C2_AddedRemovedParams ==
    Done =>
      /\ \A n \in ParamNames :
           (n \in NamesOf(old)) # (n \in NamesOf(new)) =>
             LET removed == n \in NamesOf(old)
                 p == IF removed THEN ParamNamed(old, n) ELSE ParamNamed(new, n)
                 expected ==
                   Impact(IF Required(p) THEN "major" ELSE "minor", "m:foo",
                          (IF removed THEN "Removed " ELSE "Added ")
                          \o (IF Required(p) THEN "required" ELSE "optional")
                          \o " param '" \o n \o "'")
                 about == Where(impacts, LAMBDA i : i.reason \in AboutParam(n))
             IN /\ Cardinality(about) = 1
                /\ \A i \in about : impacts[i] = expected
      /\ (/\ old.params = <<Param("x", "pos", None, None)>>
          /\ new.params = <<Param("x", "pos", None, None), Param("y", "pos", None, None)>>
          /\ old.returns = new.returns)
           => impacts = <<Impact("major", "m:foo", "Added required param 'y'")>>
      /\ (/\ old.params = <<Param("x", "pos", None, None)>>
          /\ new.params = <<Param("x", "pos", None, None),
                            Param("y", "kwonly", "None", None)>>
          /\ old.returns = new.returns)
           => impacts = <<Impact("minor", "m:foo", "Added optional param 'y'")>>
      /\ (\E n \in NamesOf(old) \ NamesOf(new) : Required(ParamNamed(old, n)))
           => \E i \in 1..Len(impacts) : impacts[i].severity = "major"
      /\ (/\ old.returns = new.returns
          /\ \A n \in NamesOf(old) :
               n \in NamesOf(new) /\ ParamNamed(new, n) = ParamNamed(old, n)
          /\ \A n \in NamesOf(new) \ NamesOf(old) : ~Required(ParamNamed(new, n)))
           => \A i \in 1..Len(impacts) : impacts[i].severity # "major"

C2_Witness ==
    /\ Done
    /\ old.params = <<Param("x", "kwonly", None, None)>>
    /\ new.params = <<Param("y", "kwonly", "None", None)>>
    /\ old.returns = new.returns
    /\ impacts = <<Impact("major", "m:foo", "Removed required param 'x'"),
                   Impact("minor", "m:foo", "Added optional param 'y'")>>

\* C6: diffing a table against itself leaves the impact list empty, whatever
\* the kinds, defaults, annotations and return annotations of its signatures.
C6_SelfDiffEmpty == (Done /\ old_api = new_api) => impacts = <<>>

C6_Witness ==
    /\ Done
    /\ old_api = new_api
    /\ Keys(old_api) = SymbolSet
    /\ \E k \in Keys(old_api) :
         /\ old_api[k].returns # None
         /\ \E i \in 1..Len(old_api[k].params) :
              /\ old_api[k].params[i].annotation # None
              /\ old_api[k].params[i].default # None
    /\ impacts = <<>>

\* C7 as stated: for a parameter name in both signatures, a major "kind
\* changed" impact is emitted if and only if the kinds differ and the old or
\* the new kind is positional-only or positional-or-keyword.
C7_KindChange_AsClaimed ==
    Done =>
      \A n \in NamesOf(old) \cap NamesOf(new) :
        LET a == ParamNamed(old, n).kind
            b == ParamNamed(new, n).kind
        IN (\E i \in 1..Len(impacts) :
              impacts[i] = Impact("major", "m:foo", KindChangedText(n, a, b)))
           <=> (a # b /\ (a \in {"posonly", "pos"} \/ b \in {"posonly", "pos"}))

\* C7 amended: for a parameter name in both signatures, exactly one major
\* "kind changed" impact is emitted if the kinds differ and the old or the
\* new kind is positional-only, positional-or-keyword or keyword-only, and
\* no impact about the parameter otherwise: a change between
\* variadic-positional and variadic-keyword produces none, keyword-only to
\* variadic-keyword produces one.
C7_KindChange ==
    Done =>
      \A n \in NamesOf(old) \cap NamesOf(new) :
        LET a == ParamNamed(old, n).kind
            b == ParamNamed(new, n).kind
            about == Where(impacts, LAMBDA i : i.reason \in AboutParam(n))
        IN IF a # b /\ (a \in {"posonly", "pos", "kwonly"}
                        \/ b \in {"posonly", "pos", "kwonly"})
           THEN /\ Cardinality(about) = 1
                /\ \A i \in about :
                     impacts[i] = Impact("major", "m:foo", KindChangedText(n, a, b))
           ELSE about = {}

C7_Witness ==
    /\ Done
    /\ old.params = <<Param("x", "kwonly", None, None)>>
    /\ new.params = <<Param("x", "varkw", None, None)>>
    /\ old.returns = new.returns
    /\ impacts = <<Impact("major", "m:foo", "Param 'x' kind changed kwonly->varkw")>>

\* C8: for a symbol in both tables there is exactly one impact "Return
\* annotation changed", at the configured severity (minor under the default
\* rules), if the two return annotations differ, and none if they are equal.
C8_ReturnAnnotation ==
    Done =>
      \A k \in Keys(old_api) \cap Keys(new_api) :
        LET about == Where(impacts, LAMBDA i : /\ i.symbol = k
                                                /\ i.reason = "Return annotation changed")
        IN IF old_api[k].returns # new_api[k].returns
           THEN /\ Cardinality(about) = 1
                /\ \A i \in about : impacts[i].severity = return_type_change
           ELSE about = {}

C8_Witness ==
    /\ Done
    /\ return_type_change = "major"
    /\ "m:f" \in Keys(old_api) \cap Keys(new_api)
    /\ old_api["m:f"].returns = None
    /\ new_api["m:f"].returns = "int"
    /\ \E i \in 1..Len(impacts) :
         impacts[i] = Impact("major", "m:f", "Return annotation changed")

\* C9 as stated: a parameter of the same name and kind in both signatures
\* that loses its default yields a major impact, and one that gains a
\* default yields a minor impact.
C9_DefaultChange_AsClaimed ==
    Done =>
      \A n \in NamesOf(old) \cap NamesOf(new) :
        LET op == ParamNamed(old, n)
            np == ParamNamed(new, n)
        IN op.kind = np.kind =>
             /\ (op.default # None /\ np.default = None)
                  => \E i \in 1..Len(impacts) : impacts[i].severity = "major"
             /\ (op.default = None /\ np.default # None)
                  => \E i \in 1..Len(impacts) : impacts[i].severity = "minor"

\* C3: decide_bump gives Decision(None, 0, []) for the empty list; for a
\* non-empty list the level is major if an impact is major, otherwise minor
\* if an impact is minor, otherwise patch.
C3_Level ==
    Done =>
      IF impacts = <<>>
      THEN decision = [level |-> None, confidence |-> [num |-> 0, den |-> 1],
                       reasons |-> <<>>]
      ELSE decision.level =
             IF \E i \in 1..Len(impacts) : impacts[i].severity = "major" THEN "major"
             ELSE IF \E i \in 1..Len(impacts) : impacts[i].severity = "minor" THEN "minor"
             ELSE "patch"

C3_Witness ==
    /\ Done
    /\ Len(impacts) = 3
    /\ impacts[1].severity = "patch"
    /\ impacts[2].severity = "minor"
    /\ impacts[3].severity = "major"
    /\ decision.level = "major"

C5_Reasons ==
    Done =>
      LET at_level == Where(impacts, LAMBDA i : i.severity = decision.level)
          \* the input position of the j-th impact at the decided level
          pos(j) == CHOOSE i \in at_level :
                      Cardinality({h \in at_level : h <= i}) = j
      IN /\ Len(decision.reasons) = Cardinality(at_level)
         /\ \A j \in 1..Len(decision.reasons) :
              decision.reasons[j] = impacts[pos(j)].reason

C5_Witness ==
    /\ Done
    /\ impacts = <<Impact("major", "m:f", "Removed public symbol"),
                   Impact("minor", "m:f", "Return annotation changed"),
                   Impact("major", "m:f", "Removed public symbol")>>
    /\ decision.reasons = <<"Removed public symbol", "Removed public symbol">>

\* A run that reads the sources: --decide, or a level to infer.
ReadsSources ==
    \/ args.decide
    \/ (env.pyproject_found /\ env.relevant_changes /\ args.level = None)

UnparsableRead == \E r \in Refs, i \in 1..MaxFiles : repo[r][i] = Unparsable

\* C10: when a source file read at the base or head reference cannot be
\* parsed, the run ends in the SyntaxError raised by
\* extract_public_api_from_source, decide_bump is never called and nothing is
\* printed: no Decision exists, not even one built from the files parsed
\* before.
C10_ParseErrorAborts ==
    /\ error # None => (pc = "raised" /\ decision = NoDecision /\ stdout = <<>>)
    /\ (ReadsSources /\ UnparsableRead) =>
         /\ decision = NoDecision
         /\ stdout = <<>>
         /\ pc \in {"start", "build", "raised"}

C10_Witness ==
    /\ pc = "raised"
    /\ error = "SyntaxError"
    /\ cursor = [ref |-> "head", idx |-> 2]
    /\ Keys(old_api) # {}
    /\ Keys(new_api) # {}
    /\ decision = NoDecision
    /\ stdout = <<>>

\* The keys of the table a call returned.
Extracted == DOMAIN result.value

\* Eligibility of a name as the claim states it: membership in the export
\* list when there is one, the private prefix otherwise.
EligibleAsClaimed(exports, name) ==
    IF exports.defined THEN Text(name) \in exports.names ELSE _is_public(name)

\* C11 (as stated): with an evaluable export list a top-level function or
\* class is extracted if and only if its name is in the list, without one if
\* and only if its name does not start with "_"; the methods of an eligible
\* class are extracted as module:Class.method unless the method is private.
C11_Eligibility_AsClaimed ==
    Done =>
        LET exports == _parse_exports(source)
        IN \A i \in 1..Len(source.body) :
              LET node == source.body[i]
              IN /\ node.type = "FunctionDef" =>
                       (("m:" \o Text(node.name)) \in Extracted
                            <=> EligibleAsClaimed(exports, node.name))
                 /\ node.type = "ClassDef" =>
                       \A j \in 1..Len(node.body) :
                          (("m:" \o Text(node.name) \o "." \o Text(node.body[j].name))
                                \in Extracted
                            <=> (EligibleAsClaimed(exports, node.name)
                                 /\ _is_public(node.body[j].name)))

\* The positional-family parameters of a signature, in order.
PositionalFamily(params) == SelectSeq(params, LAMBDA p : p.kind \in {"posonly", "pos"})

OfKind(params, kind) == SelectSeq(params, LAMBDA p : p.kind = kind)

\* C12: an extracted signature lists positional-only, positional-or-keyword,
\* at most one variadic-positional, keyword-only and at most one
\* variadic-keyword parameter in this order, each declared parameter once
\* with one kind; the i-th positional-family parameter of n (from 0) has a
\* default iff i >= n - d for d default expressions, a keyword-only one iff
\* its own default expression is present, a variadic one never.
C12_ParamList ==
    Done =>
        LET a == source.body[1].args
            params == result.value["m:f"].params
            family == PositionalFamily(params)
            kwonly == OfKind(params, "kwonly")
            n == Len(a.posonlyargs) + Len(a.args)
            d == Len(a.defaults)
        IN /\ \A i, j \in 1..Len(params) :
                 i < j => KindRank(params[i].kind) <= KindRank(params[j].kind)
           /\ Len(OfKind(params, "vararg")) = (IF a.vararg.type = "NoneType" THEN 0 ELSE 1)
           /\ Len(OfKind(params, "varkw")) = (IF a.kwarg.type = "NoneType" THEN 0 ELSE 1)
           /\ [i \in 1..Len(OfKind(params, "posonly")) |-> OfKind(params, "posonly")[i].name]
                 = [i \in 1..Len(a.posonlyargs) |-> a.posonlyargs[i].arg]
           /\ [i \in 1..Len(OfKind(params, "pos")) |-> OfKind(params, "pos")[i].name]
                 = [i \in 1..Len(a.args) |-> a.args[i].arg]
           /\ [i \in 1..Len(kwonly) |-> kwonly[i].name]
                 = [i \in 1..Len(a.kwonlyargs) |-> a.kwonlyargs[i].arg]
           /\ Len(params) = n + Len(a.kwonlyargs)
                              + Len(OfKind(params, "vararg")) + Len(OfKind(params, "varkw"))
           /\ \A i \in 0..(n - 1) : (family[i + 1].default # None) <=> (i >= n - d)
           /\ \A i \in 1..Len(kwonly) : (kwonly[i].default # None) <=> (a.kw_defaults[i].type # "NoneType")
           /\ \A i \in 1..Len(params) :
                 params[i].kind \in {"vararg", "varkw"} => params[i].default = None

\* def f(a1, /, b1, b2=None, *args, k1, k2=2, **kwargs) has been extracted.
C12_Witness ==
    /\ Done
    /\ LET a == source.body[1].args
       IN /\ Len(a.posonlyargs) = 1
          /\ Len(a.args) = 2
          /\ Len(a.defaults) = 1
          /\ a.vararg.type = "arg"
          /\ a.kwarg.type = "arg"
          /\ Len(a.kwonlyargs) = 2
          /\ a.kw_defaults[1].type = "NoneType"
          /\ a.kw_defaults[2].type = "Constant"
    /\ Len(result.value["m:f"].params) = 7
    /\ result.value["m:f"].params[3].default = "None"

\* The call that a step of the registry has just made.
LastCall == calls'[Len(calls')]

\* C13: registering a name that is already in the registry without
\* override=True raises AnalyzerRegistrationError and leaves the registry
\* unchanged: every name is still bound to the class it was bound to.
C13_DuplicateRaises ==
    [][(/\ Len(calls') = Len(calls) + 1
        /\ LastCall.op = "register"
        /\ ~LastCall.override
        /\ LastCall.name \in DOMAIN REGISTRY)
       => (/\ LastCall.raised = "AnalyzerRegistrationError"
           /\ DOMAIN REGISTRY' = DOMAIN REGISTRY
           /\ \A k \in DOMAIN REGISTRY : REGISTRY'[k] = REGISTRY[k]
           /\ get(REGISTRY', LastCall.name) = Returned(REGISTRY[LastCall.name]))]_vars

\* A second registration of dummy_test_plugin without override has raised.
C13_Witness ==
    /\ \E i, j \in 1..Len(calls) :
          /\ i < j
          /\ calls[i].op = "register" /\ calls[i].name = "dummy_test_plugin"
          /\ calls[i].cls = "Dummy" /\ calls[i].raised = None
          /\ calls[j].op = "register" /\ calls[j].name = "dummy_test_plugin"
          /\ calls[j].cls = "Duplicate" /\ ~calls[j].override
          /\ calls[j].raised = "AnalyzerRegistrationError"
          /\ j = Len(calls)
    /\ REGISTRY["dummy_test_plugin"] = "Dummy"

\* The register calls for a name among the first n calls that take effect as
\* the claim says: the first one for the name, or one made with override.
Effective(name, n) ==
    {i \in 1..n : /\ calls[i].op = "register"
                  /\ calls[i].name = name
                  /\ \/ calls[i].override
                     \/ \A j \in 1..(i - 1) :
                           ~(calls[j].op = "register" /\ calls[j].name = name)}

Latest(S) == CHOOSE i \in S : \A j \in S : j <= i

\* C14: get(name) returns the class of the most recent successful
\* registration of the name (the first, or a later one with override=True)
\* and raises AnalyzerNotFoundError for a name never registered; a name once
\* registered stays in the registry.
C14_GetReturnsLatest ==
    /\ \A i \in 1..Len(calls) :
          calls[i].op = "get" =>
             LET S == Effective(calls[i].name, i - 1)
             IN IF S = {} THEN calls[i].raised = "AnalyzerNotFoundError"
                ELSE /\ calls[i].raised = None
                     /\ calls[i].value = calls[Latest(S)].cls
    /\ \A i \in 1..Len(calls) :
          calls[i].op = "register" /\ calls[i].raised = None
             => calls[i].name \in DOMAIN REGISTRY

\* get returned the class that replaced an earlier one with override=True,
\* and raised for a name never registered.
C14_Witness ==
    /\ \E i, j, k \in 1..Len(calls) :
          /\ i < j /\ j < k
          /\ calls[i].op = "register" /\ calls[i].name = "dummy_test_plugin"
          /\ calls[i].cls = "Dummy"
          /\ calls[j].op = "register" /\ calls[j].name = "dummy_test_plugin"
          /\ calls[j].cls = "Duplicate" /\ calls[j].override
          /\ calls[k].op = "get" /\ calls[k].name = "dummy_test_plugin"
          /\ calls[k].raised = None /\ calls[k].value = "Duplicate"

\* C17: comparing a state with itself yields no impacts, for diff_routes,
\* diff_specs and diff_cli alike.
C17_SelfCompareEmpty == Done /\ old = new => impacts = <<>>

\* A CLI tree with a command that has a required and an optional option has
\* been compared with itself.
C17_Witness ==
    /\ Done
    /\ args.analyzer = "cli"
    /\ old = new
    /\ "run" \in DOMAIN old
    /\ old["run"].options = [force |-> FALSE, name |-> TRUE]

\* The reasons diff_routes gives for the parameter p.
AboutRouteParam(p) ==
    {"Removed required param '" \o p \o "'", "Removed optional param '" \o p \o "'",
     "Added required param '" \o p \o "'", "Added optional param '" \o p \o "'",
     "Param '" \o p \o "' became optional", "Param '" \o p \o "' became required"}

\* The impacts on the route key that are about the parameter p.
RouteParamAbout(key, p) ==
    Where(impacts, LAMBDA i : i.symbol = RouteSymbol(key) /\ i.reason \in AboutRouteParam(p))

OneOfSeverity(S, severity) == Cardinality(S) = 1 /\ \A i \in S : impacts[i].severity = severity

\* C19: for a route key in both tables every handler parameter yields at
\* most one impact: a removed or an added parameter major if required and
\* minor otherwise; a parameter in both major if it became required, minor
\* if it became optional, and nothing if its required-ness is unchanged.
C19_RouteParams ==
    Done /\ args.analyzer = "web_routes" =>
        \A key \in DOMAIN old \cap DOMAIN new : \A p \in RouteParamNames :
            LET op == old[key].params
                np == new[key].params
                about == RouteParamAbout(key, p)
            IN IF p \in DOMAIN op /\ p \notin DOMAIN np
               THEN OneOfSeverity(about, IF op[p] THEN "major" ELSE "minor")
               ELSE IF p \notin DOMAIN op /\ p \in DOMAIN np
               THEN OneOfSeverity(about, IF np[p] THEN "major" ELSE "minor")
               ELSE IF p \in DOMAIN op /\ p \in DOMAIN np /\ ~op[p] /\ np[p]
               THEN OneOfSeverity(about, "major")
               ELSE IF p \in DOMAIN op /\ p \in DOMAIN np /\ op[p] /\ ~np[p]
               THEN OneOfSeverity(about, "minor")
               ELSE about = {}

\* GET /foo is in both tables; q became required and limit was added as an
\* optional parameter.
C19_Witness ==
    /\ Done
    /\ args.analyzer = "web_routes"
    /\ <<"/foo", "GET">> \in DOMAIN old \cap DOMAIN new
    /\ old[<<"/foo", "GET">>].params = [q |-> FALSE]
    /\ new[<<"/foo", "GET">>].params = [q |-> TRUE, limit |-> FALSE]
    /\ \E i, j \in 1..Len(impacts) :
          /\ impacts[i] = Impact("major", "GET /foo", "Param 'q' became required")
          /\ impacts[j] = Impact("minor", "GET /foo", "Added optional param 'limit'")

\* The impacts on the command cmd with one of the reasons.
CommandAbout(cmd, reasons) ==
    Where(impacts, LAMBDA i : i.symbol = CommandSymbol(cmd) /\ i.reason \in reasons)

\* C20 (as stated): in diff_cli a removed command or option is major, an
\* added command minor, an added option major if required and minor
\* otherwise, an option that becomes required major and an option that
\* becomes optional minor.
C20_CliVocabulary_AsClaimed ==
    Done /\ args.analyzer = "cli" =>
        /\ \A cmd \in DOMAIN old \ DOMAIN new :
              OneOfSeverity(CommandAbout(cmd, {"Removed command"}), "major")
        /\ \A cmd \in DOMAIN new \ DOMAIN old :
              OneOfSeverity(CommandAbout(cmd, {"Added command"}), "minor")
        /\ \A cmd \in DOMAIN old \cap DOMAIN new :
              LET o == old[cmd].options
                  n == new[cmd].options
              IN /\ \A opt \in DOMAIN o \ DOMAIN n :
                       OneOfSeverity(CommandAbout(cmd, {"Removed option '" \o opt \o "'"}), "major")
                 /\ Cardinality(CommandAbout(cmd, {"Added required option"}))
                       = Cardinality({opt \in DOMAIN n \ DOMAIN o : n[opt]})
                 /\ Cardinality(CommandAbout(cmd, {"Added optional option"}))
                       = Cardinality({opt \in DOMAIN n \ DOMAIN o : ~n[opt]})
                 /\ \A i \in CommandAbout(cmd, {"Added required option"}) :
                       impacts[i].severity = "major"
                 /\ \A i \in CommandAbout(cmd, {"Added optional option"}) :
                       impacts[i].severity = "minor"
                 /\ \A opt \in DOMAIN o \cap DOMAIN n :
                       LET about == CommandAbout(cmd, {"Option '" \o opt \o "' requirement changed"})
                       IN IF ~o[opt] /\ n[opt] THEN OneOfSeverity(about, "major")
                          ELSE IF o[opt] /\ ~n[opt] THEN OneOfSeverity(about, "minor")
                          ELSE about = {}

\* The positions of the log at which op was called for the analyzer name.
CallsOf(op, name) == {i \in 1..Len(calls) : calls[i].op = op /\ calls[i].name = name}

\* The analyzers whose compare has run.
Executed == {calls[i].name : i \in {j \in 1..Len(calls) : calls[j].op = "compare"}}

\* The values returned by the compare calls, joined in the order of the log.
RECURSIVE Compared(_)
Compared(log) ==
    IF log = <<>> THEN <<>>
    ELSE (IF Head(log).op = "compare" THEN Head(log).value ELSE <<>>) \o Compared(Tail(log))

\* C15: the analyzers executed in a run are exactly the registered members
\* of (cfg.analyzers.enabled + enable) - disable; each of them is
\* instantiated once and contributes one compare(collect(base), collect(head)).
C15_EffectiveSet ==
    Done =>
        LET wanted == ((env.cfg.analyzers.enabled \cup args.enable_analyzer)
                          \ args.disable_analyzer) \cap DOMAIN REGISTRY
        IN /\ Executed = wanted
           /\ \A name \in AnalyzerNames \ wanted : CallsOf("__init__", name) = {}
           /\ \A name \in wanted :
                 /\ Cardinality(CallsOf("__init__", name)) = 1
                 /\ Cardinality(CallsOf("compare", name)) = 1
                 /\ \A i \in CallsOf("compare", name) :
                       calls[i].arg = <<Collect(REGISTRY[name], repo, "base"),
                                        Collect(REGISTRY[name], repo, "head")>>
           /\ impacts = Compared(calls)

\* web_routes ran because the enable flag names it, although the
\* configuration does not; cli did not run because the disable flag names
\* it, although the configuration and the enable flag do.
C15_Witness ==
    /\ Done
    /\ env.cfg.analyzers.enabled = {"cli"}
    /\ args.enable_analyzer = {"cli", "web_routes"}
    /\ args.disable_analyzer = {"cli"}
    /\ Executed = {"web_routes"}
    /\ impacts # <<>>

\* The names asked for by the configuration or a flag that are not registered.
Unregistered ==
    ((env.cfg.analyzers.enabled \cup args.enable_analyzer) \ args.disable_analyzer)
        \ DOMAIN REGISTRY

\* C16 (as stated): asking for an analyzer name that is not registered is a
\* hard error: the run aborts and the remaining analyzers produce no impacts.
C16_UnregisteredAborts_AsClaimed ==
    pc # "start" /\ Unregistered # {} =>
        /\ pc = "raised"
        /\ error # None
        /\ impacts = <<>>

\* The impacts equal to a given one.
Same(impact) == Where(impacts, LAMBDA i : i = impact)

\* C18: diff_routes gives exactly one Impact(major, "<METHOD> <path>",
\* "Removed route") for every key of the old table only and exactly one
\* Impact(minor, "<METHOD> <path>", "Added route") for every key of the new
\* table only; run together with the CLI analyzer, the impacts of the run are
\* those of the two analyzers together.
C18_RouteImpacts ==
    Done /\ "web_routes" \in Executed =>
        LET o == repo["base"].routes
            n == repo["head"].routes
            routes == Where(impacts, LAMBDA i : i.reason \in {"Removed route", "Added route"})
        IN /\ \A key \in DOMAIN o \ DOMAIN n :
                 Cardinality(Same(Impact("major", RouteSymbol(key), "Removed route"))) = 1
           /\ \A key \in DOMAIN n \ DOMAIN o :
                 Cardinality(Same(Impact("minor", RouteSymbol(key), "Added route"))) = 1
           /\ Cardinality(routes) = Cardinality(DOMAIN o \ DOMAIN n)
                                      + Cardinality(DOMAIN n \ DOMAIN o)
           /\ "cli" \in Executed =>
                 LET co == repo["base"].cli
                     cn == repo["head"].cli
                 IN /\ \A cmd \in DOMAIN co \ DOMAIN cn :
                          Cardinality(Same(Impact("major", CommandSymbol(cmd), "Removed command"))) = 1
                    /\ \A cmd \in DOMAIN cn \ DOMAIN co :
                          Cardinality(Same(Impact("minor", CommandSymbol(cmd), "Added command"))) = 1
                    /\ Len(impacts) = Cardinality(routes)
                                        + Cardinality(DOMAIN co \ DOMAIN cn)
                                        + Cardinality(DOMAIN cn \ DOMAIN co)
           /\ "cli" \notin Executed => Len(impacts) = Cardinality(routes)

\* The base has GET /foo and the command run, the head has neither; both
\* analyzers ran and the run reports the removed route and the removed command.
C18_Witness ==
    /\ Done
    /\ Executed = {"cli", "web_routes"}
    /\ <<"/foo", "GET">> \in DOMAIN repo["base"].routes
    /\ <<"/foo", "GET">> \notin DOMAIN repo["head"].routes
    /\ "run" \in DOMAIN repo["base"].cli
    /\ "run" \notin DOMAIN repo["head"].cli
    /\ \E i, j \in 1..Len(impacts) :
          /\ impacts[i] = Impact("major", "GET /foo", "Removed route")
          /\ impacts[j] = Impact("major", "run", "Removed command")

\* The paths that analyze_migrations reads as migration scripts: changed,
\* ending in .py, under a configured directory, present at head and parsable.
ChangedScripts ==
    {p \in changed_paths("base", "head", repo) :
        /\ p.suffix = ".py"
        /\ \E i \in 1..Len(env.migrations.paths) : UnderDir(p, env.migrations.paths[i])
        /\ repo["head"][p].exists}

ImpactsOf(path) == SelectSeq(impacts, LAMBDA i : i.symbol = PathText(path))

\* The calls found below a node, and inside the top-level upgrade().
RECURSIVE CallsBelow(_)
RECURSIVE CallsIn(_)
CallsBelow(node) ==
    IF node.type = "Call"
    THEN <<node>> \o CallsBelow(node.func) \o CallsIn(node.args) \o CallsIn(node.keywords)
    ELSE IF node.type \in {"Expr", "keyword", "Attribute"} THEN CallsBelow(node.value)
    ELSE IF node.type \in {"If", "FunctionDef"} THEN CallsIn(node.body)
    ELSE <<>>

CallsIn(nodes) ==
    IF nodes = <<>> THEN <<>> ELSE CallsBelow(Head(nodes)) \o CallsIn(Tail(nodes))

UpgradeCalls(content) ==
    CallsIn(SelectSeq(content.body,
                      LAMBDA s : s.type = "FunctionDef" /\ s.name = "upgrade"))

OnOp(call, attr) ==
    /\ call.func.type = "Attribute"
    /\ call.func.attr = attr
    /\ call.func.value.type = "Name"
    /\ call.func.value.id = "op"

\* A Column(...) among the arguments, written Column(...) or sa.Column(...).
IsColumn(node) ==
    /\ node.type = "Call"
    /\ \/ node.func.type = "Name" /\ node.func.id = "Column"
       \/ node.func.type = "Attribute" /\ node.func.attr = "Column"

Columns(call) == SelectSeq(call.args, IsColumn)

HasKeyword(call, name) == \E i \in 1..Len(call.keywords) : call.keywords[i].arg = name

NotNullable(column) ==
    \E i \in 1..Len(column.keywords) :
        /\ column.keywords[i].arg = "nullable"
        /\ column.keywords[i].value.type = "Constant"
        /\ column.keywords[i].value.value = "False"

Count(seq, P(_)) == Len(SelectSeq(seq, P))

Reported(path, severity, reason) ==
    Count(ImpactsOf(path), LAMBDA i : i.severity = severity /\ i.reason = reason)

\* C21 (as claimed): every changed, parsable migration script under a
\* configured directory contributes, under its path, one major "Dropped
\* column" per op.drop_column call found in upgrade(), one major "Added
\* non-nullable column" per op.add_column call whose Column(...) is
\* nullable=False without default and server_default, one minor "Added
\* column" per other op.add_column call with a Column(...), and one minor
\* "Added index" per op.create_index call.
C21_MigrationCalls_AsClaimed ==
    Done =>
        \A p \in ChangedScripts :
            repo["head"][p].parses =>
                LET found == UpgradeCalls(repo["head"][p])
                    Strict(c) ==
                        /\ OnOp(c, "add_column")
                        /\ Columns(c) # <<>>
                        /\ NotNullable(Columns(c)[1])
                        /\ ~HasKeyword(Columns(c)[1], "default")
                        /\ ~HasKeyword(Columns(c)[1], "server_default")
                    Plain(c) == OnOp(c, "add_column") /\ Columns(c) # <<>> /\ ~Strict(c)
                IN /\ Reported(p, "major", "Dropped column")
                        = Count(found, LAMBDA c : OnOp(c, "drop_column"))
                   /\ Reported(p, "major", "Added non-nullable column") = Count(found, Strict)
                   /\ Reported(p, "minor", "Added column") = Count(found, Plain)
                   /\ Reported(p, "minor", "Added index")
                        = Count(found, LAMBDA c : OnOp(c, "create_index"))

\* C22: a changed migration script that does not parse, or that is absent
\* at head, contributes no impact, and the impacts returned for every other
\* changed script are those of its content.
C22_LenientParse ==
    Done =>
        /\ \A p \in RepoPaths :
              ~repo["head"][p].parses => ImpactsOf(p) = <<>>
        /\ \A p \in ChangedScripts :
              repo["head"][p].parses =>
                  ImpactsOf(p) = UpgradeLoop(repo["head"][p].body, PathText(p))

C22_Witness ==
    /\ Done
    /\ FirstScript \in ChangedScripts
    /\ ~repo["head"][FirstScript].parses
    /\ SecondScript \in changed_paths("base", "head", repo)
    /\ repo["head"][SecondScript] = IndexScript
    /\ impacts = <<Impact("minor", PathText(SecondScript), "Added index")>>

\* C28 (as claimed): every op.drop_index call found in upgrade() of a
\* changed, parsable migration script adds a major impact under the path of
\* the script to those of the other calls.
C28_DropIndex_AsClaimed ==
    Done =>
        \A p \in ChangedScripts :
            repo["head"][p].parses =>
                LET found == UpgradeCalls(repo["head"][p])
                    others == Flatten([i \in 1..Len(found) |->
                                          visit_Call(found[i], PathText(p))])
                IN Count(ImpactsOf(p), LAMBDA i : i.severity = "major")
                     >= Count(others, LAMBDA i : i.severity = "major")
                        + Count(found, LAMBDA c : OnOp(c, "drop_index"))

\* The number of impacts equal to the given one.
Copies(severity, symbol, reason) ==
    Count(impacts, LAMBDA i : i = Impact(severity, symbol, reason))

Bit(b) == IF b THEN 1 ELSE 0

\* C23: diff_specs returns one major "Removed endpoint" per (path, method)
\* of the old spec only, one minor "Added endpoint" per one of the new spec
\* only, one major "Removed schema" and one minor "Added schema" per schema
\* name on one side only, one major "Changed schema" per name on both sides
\* whose bodies differ, and no other impact.
C23_DiffSpecs ==
    Done /\ args.analyzer = "openapi" =>
        LET both == DOMAIN old.schemas \cap DOMAIN new.schemas
            changed == {name \in both : old.schemas[name] # new.schemas[name]}
        IN /\ \A ep \in RouteKeys :
                 /\ Copies("major", RouteSymbol(ep), "Removed endpoint")
                      = Bit(ep \in old.endpoints \ new.endpoints)
                 /\ Copies("minor", RouteSymbol(ep), "Added endpoint")
                      = Bit(ep \in new.endpoints \ old.endpoints)
           /\ \A name \in SchemaNames :
                 /\ Copies("major", name, "Removed schema")
                      = Bit(name \in DOMAIN old.schemas \ DOMAIN new.schemas)
                 /\ Copies("minor", name, "Added schema")
                      = Bit(name \in DOMAIN new.schemas \ DOMAIN old.schemas)
                 /\ Copies("major", name, "Changed schema") = Bit(name \in changed)
           /\ Len(impacts)
                = Cardinality(old.endpoints \ new.endpoints)
                  + Cardinality(new.endpoints \ old.endpoints)
                  + Cardinality(DOMAIN old.schemas \ DOMAIN new.schemas)
                  + Cardinality(DOMAIN new.schemas \ DOMAIN old.schemas)
                  + Cardinality(changed)

\* All five kinds of impact in one comparison; the schema kept unchanged
\* adds none.
C23_Witness ==
    /\ Done
    /\ args.analyzer = "openapi"
    /\ old = OpenAPISpec({<<"/foo", "GET">>},
                         [name \in {"User", "Item"} |-> SchemaBody("integer")])
    /\ new = OpenAPISpec({<<"/bar", "POST">>},
                         [name \in {"User", "Order"} |->
                             IF name = "User" THEN SchemaBody("string")
                             ELSE SchemaBody("integer")])
    /\ Len(impacts) = 5
    /\ Copies("major", "User", "Changed schema") = 1

\* C24 (as claimed): the level that decide_bump returns for a list of
\* impacts is the level it returns for the list without its warn impacts,
\* so a list of warn impacts only gives no level.
C24_WarnIgnored_AsClaimed ==
    Done =>
        decision.level
            = decide_bump(SelectSeq(impacts, LAMBDA i : i.severity # "warn")).level

\* The line that reports the version change.
Displayed(vc) ==
    \E i \in 1..Len(stdout) :
        /\ stdout[i].text = "Bumped version"
        /\ stdout[i].old = vc.old
        /\ stdout[i].new = vc.new

\* C25 (as claimed): with --dry-run no step of bump_command changes a file
\* of the working tree, the commits or the tags, whatever --commit, --tag
\* and --changelog are, and a run that computes a version change displays
\* the old and the new version.
C25_DryRun_AsClaimed ==
    /\ [][args.dry_run => repo' = repo]_vars
    /\ [](Done /\ args.dry_run /\ cursor.vc # NoChange =>
            /\ cursor.vc.new = bump_string(StartVersion, cursor.level)
            /\ Displayed(cursor.vc))

\* Every changed path is the pyproject file or a literal version file.
OnlyVersionFiles ==
    /\ env.changed.ok
    /\ \A p \in env.changed.paths :
          \/ p = args.pyproject
          \/ p \in version_files(env.cfg.version.paths \o args.version_path)

\* No --level was given and the inferred Decision has no level.
NothingInferred == args.level = None /\ decide_bump(impacts).level = None

\* C26 (as claimed): when every changed path is the pyproject file or a
\* literal version file, or no --level is given and the inferred level is
\* none, no step of bump_command reaches apply_bump or changes the files,
\* commits or tags, and the command prints "No version bump needed" and
\* returns 0; the files only change after both checks.
C26_NoBump_AsClaimed ==
    /\ [][OnlyVersionFiles \/ NothingInferred => repo' = repo /\ pc' # "apply"]_vars
    /\ [][repo' # repo => pc \in {"apply", "report"}]_vars
    /\ [](Done /\ (OnlyVersionFiles \/ NothingInferred) =>
            /\ stdout = <<[text |-> "No version bump needed"]>>
            /\ result = Exit(0))

\* C27: after a call of load_enabled, _run_analyzers, get or available,
\* whether it returned or raised, the name-to-class mapping of the registry
\* is the one before the call; when the mapping differs from the one before
\* the last call, that call was register.
C27_RegistryReadOnly ==
    calls # <<>> =>
        /\ calls[1].op \in {"load_enabled", "_run_analyzers", "get", "available"}
              => REGISTRY = old
        /\ REGISTRY # old => calls[1].op = "register"

\* A run on a registry that holds a test plug-in fails in collect, and a
\* name that is not registered was asked for.
C27_Witness ==
    /\ calls # <<>>
    /\ calls[1].op = "_run_analyzers"
    /\ "missing" \in calls[1].name
    /\ result = Raised("CalledProcessError")
    /\ "dummy_test_plugin" \in DOMAIN REGISTRY

\* The definitions the visitor comes to: the statements of the body and
\* those under a compound statement.
RECURSIVE Defined(_)
Defined(body) ==
    IF body = <<>> THEN {}
    ELSE (IF Head(body).type = "If" THEN Defined(Head(body).body)
          ELSE IF Head(body).type \in {"FunctionDef", "ClassDef"} THEN {Head(body)}
          ELSE {})
         \cup Defined(Tail(body))

\* A name whose first character is not the underscore.
NoUnderscore(name) == Head(name) # "_"

\* module:name for the functions and module:Class.method for the methods of
\* the classes of a body, none of the names with a leading underscore.
PublicKeys(module_name, body) ==
    LET functions == {d \in Defined(body) : d.type = "FunctionDef" /\ NoUnderscore(d.name)}
        classes == {d \in Defined(body) : d.type = "ClassDef" /\ NoUnderscore(d.name)}
        methods(c) == {i \in 1..Len(c.body) :
                          c.body[i].type = "FunctionDef" /\ NoUnderscore(c.body[i].name)}
    IN {module_name \o ":" \o Text(d.name) : d \in functions}
       \cup UNION {{module_name \o ":" \o Text(c.name) \o "." \o Text(c.body[i].name) :
                       i \in methods(c)} : c \in classes}

\* C30: every key of the table extract_public_api_from_source returns is
\* module:name or module:Class.method of a definition of the source where
\* neither the function, the class nor the method name starts with an
\* underscore, whatever __all__ lists: _h named in __all__ and the methods
\* __init__ and _p of a listed class are never keys.
C30_NoUnderscoreKeys ==
    (Done /\ result.raised = None) =>
        /\ Extracted \subseteq PublicKeys("m", source.body)
        /\ Extracted \cap {"m:_h", "m:C.__init__", "m:C._p", "m:_D.run"} = {}

\* __all__ = ["f", "_h"] over def f and def _h: only m:f is extracted.
C30_Witness ==
    /\ Done
    /\ result.raised = None
    /\ source = Module(<<AssignName("__all__", StrList(<<"f", "_h">>)),
                         FunctionDef(<<"f">>, NoArguments, Absent),
                         FunctionDef(<<"_", "h">>, NoArguments, Absent)>>)
    /\ Extracted = {"m:f"}

\* C29 (as stated): collecting the command line interface at the two
\* references runs no statement of the analysed cli.py, as collecting the
\* public API runs none.
C29_NoExecution_AsClaimed == calls = <<>>

====
